---- MODULE Spec2Model ----
(***************************************************************************)
(* A model of the Bank of src/src/bank.hpp: the bank-wide budget, the      *)
(* accounts table (src/src/hash_table.hpp), the two pending queues         *)
(* (src/src/doubly_linked_list.hpp) and the public operations request,     *)
(* update_accounts_loans, update_accounts_operations and update_interests. *)
(*                                                                         *)
(* A list is modelled by the sequence of its values (front to back), the   *)
(* hash table by its bucket array, its key list and its counter.  The      *)
(* std::uint64_t arithmetic of the code is kept at a reduced width W:      *)
(* subtraction and the accumulation of request amounts wrap modulo 2^W as  *)
(* the unsigned type does.  Additions to the bank budget and the balances  *)
(* are capped: the model takes no step whose addition would leave 0..MaxU. *)
(* The loan and the deposit interest are computed in doubles of a reduced  *)
(* number of significant bits and assigned back as the code does; within   *)
(* 0..MaxU the sums of the loan interest are doubles exactly, and          *)
(* SpecLarge commits loans on budgets beyond the significand.              *)
(* The caller makes any public call in any order, MaxCalls calls at most;  *)
(* an exception leaves the Bank as the throwing statement found it and the *)
(* caller goes on.  SpecTable and SpecList are the HashTable and the       *)
(* DoublyLinkedList called directly, the list with its nodes and pointers. *)
(* SpecLocked and SpecRacing execute the two batch commits statement by    *)
(* statement, with the requests of other threads kept out of a running     *)
(* commit by the callers' mutex, or not.                                   *)
(***************************************************************************)
EXTENDS Integers, Sequences, FiniteSets, TLC

\* ------------------------------------------------------------------ bounds

\* Number of values of the unsigned budget type in the model (2^64 in the
\* code): unsigned arithmetic wraps modulo this number.
Modulus == 5

\* Largest number of records pending in the two queues together.
MaxPending == 2

\* Largest number of public calls the caller makes on the Bank.
MaxCalls == 5

\* Largest number of public calls the driver of src/src/main.cpp makes in
\* its epochs.
MaxEpochCalls == 8

\* Number of addresses the allocator hands out to the nodes of a linked
\* list: the largest length of a list whose nodes the model follows.
MaxNodes == 3

\* Number of significant bits of a double in the model (53 in the code).
MantissaBits == 3

RECURSIVE Pow2(_)
Pow2(n) == IF n = 0 THEN 1 ELSE 2 * Pow2(n - 1)

\* The significands of the doubles are MantissaLow .. MantissaTop - 1.
MantissaTop == Pow2(MantissaBits)
MantissaLow == Pow2(MantissaBits - 1)

\* Largest value of the unsigned type.
MaxU == Modulus - 1

\* Account keys the callers use, and the amounts they pass to request: for
\* opening and depositing, for closing and withdrawing, and for loans.
Keys == {1, 2}
DepositAmounts == {1, 2}
OperationAmounts == {1, MaxU - 1}
LoanAmounts == {2, 3, MaxU}

\* Keys and values of the calls made on a HashTable directly.  With the
\* default capacity 2^16 two keys share a bucket exactly when they differ by
\* a multiple of 2^16: 1, 2^16 + 1 and 2^17 + 1 collide, 2 is alone in its
\* bucket.
TableKeys == {1, 2, Pow2(16) + 1, Pow2(17) + 1}
TableValues == {1, 2}

\* Keys and amounts of the NewLoan elements appended to a list directly.
ListKeys == {1, 2}
ListAmounts == {1, 2}

\* Constructor arguments: initial budget, and the two rates as fractions.
\* The deposit rate 3/8 is a double of MantissaBits bits whose sum with 1 is
\* not one, as the default 0.005 of the code is for 53 bits.
InitialBudgets == {2}
LoanRates == {[num |-> 1, den |-> 2]}
DepositRates == {[num |-> 3, den |-> 8]}

\* ------------------------------------------------------- program constants

\* Default bucket capacity of the accounts table.
bucket_capacity == 65536

\* Multiplier of the Knuth multiplicative hash, 2654435761 = 0x9E3779B1, as
\* its two 16-bit halves (the checker's integers are 32-bit).
KnuthHi == 40503
KnuthLo == 31153

\* --------------------------------------------------------------- RequestType

RequestType == {"OpenAccount", "CloseAccount", "Deposit", "Withdraw", "Loan"}

NewLoan(key, loan_budget) == [key |-> key, loan_budget |-> loan_budget]

NewOperation(key, new_request_type, new_request_budget) ==
    [key |-> key, new_request_type |-> new_request_type,
     new_request_budget |-> new_request_budget]

\* -------------------------------------------------------- DoublyLinkedList

\* append: the value becomes the last element.
DoublyLinkedList_append(list, value) == Append(list, value)

\* operator[] with the code's 0-based index (index < length).
DoublyLinkedList_at(list, index) == list[index + 1]

DoublyLinkedList_length(list) == Len(list)

\* contains: some element equals the value under the element's operator==,
\* which for table items and for request records compares the key only.
DoublyLinkedList_contains_key(list, key) ==
    \E i \in 0 .. DoublyLinkedList_length(list) - 1 :
        DoublyLinkedList_at(list, i).key = key

\* contains on the key list (elements are the keys themselves).
DoublyLinkedList_contains(list, value) ==
    \E i \in 0 .. DoublyLinkedList_length(list) - 1 :
        DoublyLinkedList_at(list, i) = value

\* The search loop of remove_valuebased: the position (1-based) of the
\* first element equal to the value; for records, equal by key.
FirstIndexOfKey(list, key) ==
    CHOOSE i \in 1 .. Len(list) :
        /\ list[i].key = key
        /\ \A j \in 1 .. i - 1 : list[j].key # key

FirstIndexOf(list, value) ==
    CHOOSE i \in 1 .. Len(list) :
        /\ list[i] = value
        /\ \A j \in 1 .. i - 1 : list[j] # value

\* _remove: the sequence without its i-th (1-based) element.
DoublyLinkedList_remove(list, i) ==
    [j \in 1 .. Len(list) - 1 |-> IF j < i THEN list[j] ELSE list[j + 1]]

\* remove_valuebased for records compared by key: first match is removed.
DoublyLinkedList_remove_valuebased_key(list, key) ==
    DoublyLinkedList_remove(list, FirstIndexOfKey(list, key))

\* remove_valuebased on the key list.
DoublyLinkedList_remove_valuebased(list, value) ==
    DoublyLinkedList_remove(list, FirstIndexOf(list, value))

\* ------------------------------------- DoublyLinkedList, node by node
\*
\* The same list with its nodes: nodes maps the address of every allocated
\* DoublyLinkedListItem to its value and its prev and next pointers; the
\* list holds _first_item, _last_item and _count.  new returns the least
\* free address (the code never compares addresses), delete frees it.

nullptr == 0

Addresses == 1 .. MaxNodes

Linked_new ==
    [nodes |-> << >>, _first_item |-> nullptr, _last_item |-> nullptr, _count |-> 0]

\* The address new returns.
NewItem(list) ==
    CHOOSE a \in Addresses \ DOMAIN list.nodes :
        \A b \in Addresses \ DOMAIN list.nodes : a <= b

\* delete item.
Delete(nodes, item) == [a \in DOMAIN nodes \ {item} |-> nodes[a]]

Linked_append(list, value) ==
    LET new_item == NewItem(list)
    IN  IF list._last_item = nullptr
        THEN [nodes       |-> list.nodes @@
                                 (new_item :> [value |-> value, prev |-> nullptr,
                                               next |-> nullptr]),
              _first_item |-> new_item,
              _last_item  |-> new_item,
              _count      |-> list._count + 1]
        ELSE [nodes       |-> [list.nodes EXCEPT ![list._last_item].next = new_item] @@
                                 (new_item :> [value |-> value, prev |-> list._last_item,
                                               next |-> nullptr]),
              _first_item |-> list._first_item,
              _last_item  |-> new_item,
              _count      |-> list._count + 1]

\* Mutant of Linked_remove: removing the first element leaves _first_item.
Linked_remove_keepsFirst(list, item) ==
    LET node == list.nodes[item]
    IN  IF node.next = nullptr /\ node.prev = nullptr
        THEN [nodes |-> Delete(list.nodes, item), _first_item |-> nullptr,
              _last_item |-> nullptr, _count |-> list._count - 1]
        ELSE IF node.next = nullptr
        THEN [nodes |-> Delete([list.nodes EXCEPT ![node.prev].next = nullptr], item),
              _first_item |-> list._first_item,
              _last_item |-> node.prev, _count |-> list._count - 1]
        ELSE IF node.prev = nullptr
        THEN [nodes |-> Delete([list.nodes EXCEPT ![node.next].prev = nullptr], item),
              _first_item |-> list._first_item,
              _last_item |-> list._last_item, _count |-> list._count - 1]
        ELSE [nodes |-> Delete([list.nodes EXCEPT ![node.prev].next = node.next,
                                                  ![node.next].prev = node.prev], item),
              _first_item |-> list._first_item,
              _last_item |-> list._last_item, _count |-> list._count - 1]

\* _remove: the counter is decremented, then the four cases: the only
\* element, the last element, the first element, a generic element.
Linked_remove(list, item) ==
    LET node == list.nodes[item]
    IN  IF node.next = nullptr /\ node.prev = nullptr
        THEN [nodes |-> Delete(list.nodes, item), _first_item |-> nullptr,
              _last_item |-> nullptr, _count |-> list._count - 1]
        ELSE IF node.next = nullptr
        THEN [nodes |-> Delete([list.nodes EXCEPT ![node.prev].next = nullptr], item),
              _first_item |-> list._first_item,
              _last_item |-> node.prev, _count |-> list._count - 1]
        ELSE IF node.prev = nullptr
        THEN [nodes |-> Delete([list.nodes EXCEPT ![node.next].prev = nullptr], item),
              _first_item |-> node.next,
              _last_item |-> list._last_item, _count |-> list._count - 1]
        ELSE [nodes |-> Delete([list.nodes EXCEPT ![node.prev].next = node.next,
                                                  ![node.next].prev = node.prev], item),
              _first_item |-> list._first_item,
              _last_item |-> list._last_item, _count |-> list._count - 1]

\* Mutant of Seek: the loop does not step off the last item.
RECURSIVE Seek_stopsAtLast(_, _, _, _)
Seek_stopsAtLast(list, current_item, i, index) ==
    IF current_item # nullptr /\ i < index /\ list.nodes[current_item].next # nullptr
    THEN Seek_stopsAtLast(list, list.nodes[current_item].next, i + 1, index)
    ELSE current_item

\* The loop "for (i; current_item && i < index; ++i) current_item =
\* current_item->next" of remove_indexbased and operator[]: the item it ends
\* on, nullptr when the list is shorter.
RECURSIVE Seek(_, _, _, _)
Seek(list, current_item, i, index) ==
    IF current_item # nullptr /\ i < index
    THEN Seek(list, list.nodes[current_item].next, i + 1, index)
    ELSE current_item

\* Mutant of Find: the search goes on to the last item with the key.
RECURSIVE Find_lastMatch(_, _, _)
Find_lastMatch(list, current_item, key) ==
    IF current_item = nullptr THEN nullptr
    ELSE LET later == Find_lastMatch(list, list.nodes[current_item].next, key)
         IN  IF later # nullptr THEN later
             ELSE IF list.nodes[current_item].value.key = key THEN current_item
             ELSE nullptr

\* The search loop of remove_valuebased for NewLoan elements, which
\* operator== compares by key: the first item with the key, or nullptr.
RECURSIVE Find(_, _, _)
Find(list, current_item, key) ==
    IF current_item = nullptr THEN nullptr
    ELSE IF list.nodes[current_item].value.key = key THEN current_item
    ELSE Find(list, list.nodes[current_item].next, key)

\* The while loop of clear: every item from _first_item on is deleted.
RECURSIVE DeleteFrom(_, _)
DeleteFrom(nodes, first_item) ==
    IF first_item = nullptr THEN nodes
    ELSE DeleteFrom(Delete(nodes, first_item), nodes[first_item].next)

\* Mutant of Linked_clear: _last_item is left as it was.
Linked_clear_keepsLast(list) ==
    [nodes |-> DeleteFrom(list.nodes, list._first_item), _first_item |-> nullptr,
     _last_item |-> list._last_item, _count |-> 0]

Linked_clear(list) ==
    [nodes |-> DeleteFrom(list.nodes, list._first_item), _first_item |-> nullptr,
     _last_item |-> nullptr, _count |-> 0]

Linked_length(list) == list._count

\* ---------------------------------------------------------------- HashTable

\* 2^16: the 32-bit product is computed on 16-bit halves.
Half == Pow2(16)

\* (key * 2654435761) mod 2^32, as the pair of its 16-bit halves, from the
\* 16-bit halves of the key.
Mul32(key) ==
    LET kh == key \div Half
        kl == key % Half
        lo == kl * KnuthLo
    IN  [hi |-> (kl * KnuthHi + kh * KnuthLo + lo \div Half) % Half,
         lo |-> lo % Half]

\* _hash_function with the table's capacity as a parameter.
HashOf(key, capacity) ==
    LET m == Mul32(key)
    IN  ((m.hi % capacity) * (Half % capacity) + m.lo) % capacity

_hash_function(table, key) == HashOf(key, table._bucket_capacity)

\* The buckets any key of the model hashes to in a table of the capacity;
\* every other bucket is empty.
Buckets(capacity) == {HashOf(k, capacity) : k \in Keys \cup TableKeys}

\* The constructor: an array of empty buckets.
HashTable_of(capacity) ==
    [items |-> [b \in Buckets(capacity) |-> << >>], keys |-> << >>, count |-> 0,
     _bucket_capacity |-> capacity]

\* The table of a Bank, of the default capacity.
HashTable_new == HashTable_of(bucket_capacity)

\* Mutant of HashTable_contains: any item in the key's bucket counts.
HashTable_contains_bucketInUse(table, key) ==
    table.items[_hash_function(table, key)] # << >>

HashTable_contains(table, key) ==
    DoublyLinkedList_contains_key(table.items[_hash_function(table, key)], key)

\* Mutant of HashTable_insert: the key is put at the front of the key list.
HashTable_insert_listedFirst(table, key, value) ==
    LET b == _hash_function(table, key)
    IN  [items |-> [table.items EXCEPT
                       ![b] = DoublyLinkedList_append(@, [key |-> key, value |-> value])],
         keys  |-> <<key>> \o table.keys,
         count |-> table.count + 1,
         _bucket_capacity |-> table._bucket_capacity]

\* insert on a key that is absent (the caller tests contains first).
HashTable_insert(table, key, value) ==
    LET b == _hash_function(table, key)
    IN  [items |-> [table.items EXCEPT
                       ![b] = DoublyLinkedList_append(@, [key |-> key, value |-> value])],
         keys  |-> DoublyLinkedList_append(table.keys, key),
         count |-> table.count + 1,
         _bucket_capacity |-> table._bucket_capacity]

\* Mutant of HashTable_remove: the key stays in the key list.
HashTable_remove_keepsKey(table, key) ==
    LET b == _hash_function(table, key)
    IN  [items |-> [table.items EXCEPT
                       ![b] = DoublyLinkedList_remove_valuebased_key(@, key)],
         keys  |-> table.keys,
         count |-> table.count - 1,
         _bucket_capacity |-> table._bucket_capacity]

\* remove on a key that is present.
HashTable_remove(table, key) ==
    LET b == _hash_function(table, key)
    IN  [items |-> [table.items EXCEPT
                       ![b] = DoublyLinkedList_remove_valuebased_key(@, key)],
         keys  |-> DoublyLinkedList_remove_valuebased(table.keys, key),
         count |-> table.count - 1,
         _bucket_capacity |-> table._bucket_capacity]

\* Mutant of HashTable_get: the first item of the bucket, whatever its key.
HashTable_get_firstOfBucket(table, key) ==
    DoublyLinkedList_at(table.items[_hash_function(table, key)], 0).value

\* operator[] read: the value of the first item of the bucket with the key.
HashTable_get(table, key) ==
    LET bucket == table.items[_hash_function(table, key)]
    IN  bucket[FirstIndexOfKey(bucket, key)].value

\* Mutant of HashTable_set: the first item of the bucket is assigned,
\* whatever its key.
HashTable_set_firstOfBucket(table, key, value) ==
    [table EXCEPT !.items[_hash_function(table, key)][1].value = value]

\* operator[] write: the value of that item is replaced.
HashTable_set(table, key, value) ==
    LET b      == _hash_function(table, key)
        bucket == table.items[b]
    IN  [table EXCEPT !.items[b][FirstIndexOfKey(bucket, key)].value = value]

HashTable_length(table) == table.count

HashTable_keys(table) == table.keys

\* ------------------------------------------------------------------- state

VARIABLES
    _bank_budget,       \* Bank::_bank_budget
    _loan_interest,     \* Bank::_loan_interest, a fraction num/den
    _deposit_interest,  \* Bank::_deposit_interest, a fraction num/den
    _accounts_budget,   \* Bank::_accounts_budget, the hash table
    _new_loans,         \* Bank::_new_loans
    _new_operations,    \* Bank::_new_operations
    linked_list,        \* a DoublyLinkedList<NewLoan> called directly
    frame,              \* the locals of the batch commit that is running
    ret,                \* the last public call and what it returned or threw
    calls               \* number of public calls made so far

vars == <<_bank_budget, _loan_interest, _deposit_interest, _accounts_budget,
          _new_loans, _new_operations, linked_list, frame, ret, calls>>

\* A bool return value, as ret holds it.
Bool(b) == IF b THEN "true" ELSE "false"

Returned(call, value) == [call |-> call, value |-> value, threw |-> "none"]
Threw(call, what) == [call |-> call, value |-> "none", threw |-> what]

\* No batch commit is running.  While one runs, frame holds the place it has
\* reached (pc) and the locals of update_accounts_loans,
\* update_accounts_operations and _are_safe_loans: is_safe, the loop index
\* i, the flags array (the set of flagged indices and its allocated size),
\* the working budget, count and found.  Two fields are not locals of the
\* code: checked, the length of the queue when the safety check returned,
\* and passes, the number of scan passes the check has begun.
NoFrame ==
    [pc |-> "idle", is_safe |-> TRUE, i |-> 0, dispensed |-> {}, size |-> 0,
     budget |-> 0, count |-> 0, found |-> FALSE, checked |-> 0, passes |-> 0]

\* The caller's position after a public call of the Bank has returned.  The
\* driver of src/src/main.cpp goes on to the next statement of its epoch:
\* the removal of an account, the opening of one, the loop over the
\* accounts (i is its index j), the two commits, the interests.  Any other
\* caller stays where it is.
EpochStatements ==
    {"epoch_remove", "epoch_open", "epoch_handle", "epoch_loans",
     "epoch_operations", "epoch_interests"}

Resume(caller) ==
    CASE caller.pc = "epoch_remove"     -> [caller EXCEPT !.pc = "epoch_open"]
      [] caller.pc = "epoch_open"       -> [caller EXCEPT !.pc = "epoch_handle", !.i = 0]
      [] caller.pc = "epoch_handle"     -> [caller EXCEPT !.i = caller.i + 1]
      [] caller.pc = "epoch_loans"      -> [caller EXCEPT !.pc = "epoch_operations"]
      [] caller.pc = "epoch_operations" -> [caller EXCEPT !.pc = "epoch_interests"]
      [] caller.pc = "epoch_interests"  -> [caller EXCEPT !.pc = "epoch_remove"]
      [] OTHER                          -> caller

\* Bank::Bank: both rates are >= 0, the table and the queues are empty.
Init ==
    /\ _bank_budget \in InitialBudgets
    /\ _loan_interest \in LoanRates
    /\ _deposit_interest \in DepositRates
    /\ _accounts_budget = HashTable_new
    /\ _new_loans = << >>
    /\ _new_operations = << >>
    /\ linked_list = Linked_new
    /\ frame = NoFrame
    /\ ret = Returned("Bank", "void")
    /\ calls = 0

\* ------------------------------------- Bank::pending_request and the like

pending_request(loans, operations, key) ==
    \/ DoublyLinkedList_contains_key(loans, key)
    \/ DoublyLinkedList_contains_key(operations, key)

pending_loans(loans) == DoublyLinkedList_length(loans) # 0

pending_operations(operations) == DoublyLinkedList_length(operations) # 0

\* ------------------------------------------------------------ Bank::request

Pending == Len(_new_loans) + Len(_new_operations)

\* The caller makes one more public call.
Call ==
    /\ calls < (IF frame.pc \in EpochStatements THEN MaxEpochCalls ELSE MaxCalls)
    /\ calls' = calls + 1

\* Mutant of RequestOpenAccount: an existing account is overwritten.
RequestOpenAccount_overwrite(key, request_budget) ==
    /\ Call
    /\ UNCHANGED linked_list
    /\ frame' = Resume(frame)
    /\ _bank_budget + request_budget <= MaxU
    /\ _bank_budget' = _bank_budget + request_budget
    /\ _accounts_budget' =
           IF HashTable_contains(_accounts_budget, key)
           THEN HashTable_set(_accounts_budget, key, request_budget)
           ELSE HashTable_insert(_accounts_budget, key, request_budget)
    /\ ret' = Returned("request", "void")
    /\ UNCHANGED <<_loan_interest, _deposit_interest, _new_loans, _new_operations>>

\* case OpenAccount: the budget is increased, then insert may throw.
RequestOpenAccount(key, request_budget) ==
    /\ Call
    /\ UNCHANGED linked_list
    /\ frame' = Resume(frame)
    /\ _bank_budget + request_budget <= MaxU
    /\ _bank_budget' = _bank_budget + request_budget
    /\ IF HashTable_contains(_accounts_budget, key)
       THEN /\ ret' = Threw("request", "runtime_error")
            /\ UNCHANGED _accounts_budget
       ELSE /\ _accounts_budget' = HashTable_insert(_accounts_budget, key, request_budget)
            /\ ret' = Returned("request", "void")
    /\ UNCHANGED <<_loan_interest, _deposit_interest, _new_loans, _new_operations>>

\* Mutant of RequestDeposit: the amount reaches the bank budget only.
RequestDeposit_budgetOnly(key, request_budget) ==
    /\ Call
    /\ UNCHANGED linked_list
    /\ frame' = Resume(frame)
    /\ _bank_budget + request_budget <= MaxU
    /\ _bank_budget' = _bank_budget + request_budget
    /\ ret' = IF HashTable_contains(_accounts_budget, key)
              THEN Returned("request", "void")
              ELSE Threw("request", "out_of_range")
    /\ UNCHANGED <<_loan_interest, _deposit_interest, _accounts_budget,
                   _new_loans, _new_operations>>

\* case Deposit: the budget is increased, then operator[] may throw.
RequestDeposit(key, request_budget) ==
    /\ Call
    /\ UNCHANGED linked_list
    /\ frame' = Resume(frame)
    /\ _bank_budget + request_budget <= MaxU
    /\ _bank_budget' = _bank_budget + request_budget
    /\ IF ~HashTable_contains(_accounts_budget, key)
       THEN /\ ret' = Threw("request", "out_of_range")
            /\ UNCHANGED _accounts_budget
       ELSE /\ HashTable_get(_accounts_budget, key) + request_budget <= MaxU
            /\ _accounts_budget' =
                   HashTable_set(_accounts_budget, key,
                                 HashTable_get(_accounts_budget, key) + request_budget)
            /\ ret' = Returned("request", "void")
    /\ UNCHANGED <<_loan_interest, _deposit_interest, _new_loans, _new_operations>>

\* Mutant of RequestOperation: the account is looked up before the append.
RequestOperation_ifExists(key, request_type, request_budget) ==
    /\ Call
    /\ UNCHANGED linked_list
    /\ frame' = Resume(frame)
    /\ request_type \in {"CloseAccount", "Withdraw"}
    /\ Pending < MaxPending
    /\ IF HashTable_contains(_accounts_budget, key)
       THEN /\ _new_operations' =
                   DoublyLinkedList_append(_new_operations,
                       NewOperation(key, request_type, request_budget))
            /\ ret' = Returned("request", "void")
       ELSE /\ ret' = Threw("request", "out_of_range")
            /\ UNCHANGED _new_operations
    /\ UNCHANGED <<_bank_budget, _loan_interest, _deposit_interest,
                   _accounts_budget, _new_loans>>

\* case CloseAccount, Withdraw: the record is appended to the operations.
RequestOperation(key, request_type, request_budget) ==
    /\ Call
    /\ UNCHANGED linked_list
    /\ frame' = Resume(frame)
    /\ request_type \in {"CloseAccount", "Withdraw"}
    /\ Pending < MaxPending
    /\ _new_operations' =
           DoublyLinkedList_append(_new_operations,
                                   NewOperation(key, request_type, request_budget))
    /\ ret' = Returned("request", "void")
    /\ UNCHANGED <<_bank_budget, _loan_interest, _deposit_interest,
                   _accounts_budget, _new_loans>>

\* case Loan: the record is appended to the loans.
RequestLoan(key, request_budget) ==
    /\ Call
    /\ UNCHANGED linked_list
    /\ frame' = Resume(frame)
    /\ Pending < MaxPending
    /\ _new_loans' = DoublyLinkedList_append(_new_loans, NewLoan(key, request_budget))
    /\ ret' = Returned("request", "void")
    /\ UNCHANGED <<_bank_budget, _loan_interest, _deposit_interest,
                   _accounts_budget, _new_operations>>

Request ==
    \/ \E key \in Keys, request_budget \in DepositAmounts :
           \/ RequestOpenAccount(key, request_budget)
           \/ RequestDeposit(key, request_budget)
    \/ \E key \in Keys, request_budget \in OperationAmounts :
           \/ RequestOperation(key, "CloseAccount", request_budget)
           \/ RequestOperation(key, "Withdraw", request_budget)
    \/ \E key \in Keys, request_budget \in LoanAmounts :
           RequestLoan(key, request_budget)

\* ------------------------------------------------------------ double

\* Conversion to double: the fraction num / den rounded to the nearest value
\* with MantissaBits significant bits, ties to the even significand.  Ulp
\* finds the spacing up / down of the doubles around the fraction,
\* RoundHalfEven the significand.
RECURSIVE Ulp(_, _, _, _)
Ulp(num, den, up, down) ==
    IF num * down >= MantissaTop * den * up
    THEN Ulp(num, den, 2 * up, down)
    ELSE IF num * down < MantissaLow * den * up
         THEN Ulp(num, den, up, 2 * down)
         ELSE [num |-> up, den |-> down]

RoundHalfEven(num, den) ==
    LET quotient == num \div den
        rest     == num % den
    IN  IF 2 * rest < den THEN quotient
        ELSE IF 2 * rest > den THEN quotient + 1
        ELSE IF quotient % 2 = 0 THEN quotient ELSE quotient + 1

Double(num, den) ==
    IF num = 0
    THEN [num |-> 0, den |-> 1]
    ELSE CHOOSE double \in
             {[num |-> RoundHalfEven(num * unit.den, den * unit.num) * unit.num,
               den |-> unit.den] : unit \in {Ulp(num, den, 1, 1)}} : TRUE

\* ------------------------------------------------- Bank::_are_safe_loans

\* budget += loans[i].budget * _loan_interest: the amount and the budget
\* are converted to double, the product and the sum are doubles, and the sum
\* is truncated when it is assigned back to the unsigned budget.  Each
\* intermediate double is bound as a value before it is used.
AddInterest(budget, loan_budget, rate) ==
    CHOOSE result \in
        {sum.num \div sum.den :
            sum \in {Double(working.num * interest.den + interest.num * working.den,
                            working.den * interest.den) :
                        working \in {Double(b, 1) : b \in {budget}},
                        interest \in {Double(amount.num * factor.num,
                                             amount.den * factor.den) :
                                         amount \in {Double(a, 1) : a \in {loan_budget}},
                                         factor \in {Double(rate.num, rate.den)}}}} :
        TRUE

\* The for loop of one pass, from index i on.  st = [dispensed, budget,
\* found, count]: the flags array (as the set of flagged indices), the
\* working budget, and the two locals of the while loop.
RECURSIVE ScanLoans(_, _, _, _)
ScanLoans(loans, rate, i, st) ==
    IF i >= DoublyLinkedList_length(loans)
    THEN st
    ELSE IF i \notin st.dispensed
            /\ DoublyLinkedList_at(loans, i).loan_budget <= st.budget
         THEN ScanLoans(loans, rate, i + 1,
                        [dispensed |-> st.dispensed \cup {i},
                         budget    |-> AddInterest(st.budget,
                                          DoublyLinkedList_at(loans, i).loan_budget, rate),
                         found     |-> TRUE,
                         count     |-> st.count + 1])
         ELSE ScanLoans(loans, rate, i + 1, st)

\* Mutant of SafeLoansLoop: one pass only, unsafe unless it dispensed all.
SafeLoansLoop_onePass(loans, rate, st) ==
    ScanLoans(loans, rate, 0, [st EXCEPT !.found = FALSE]).count
        >= DoublyLinkedList_length(loans)

\* The while loop: passes are repeated until every loan is dispensed or a
\* pass finds none.
RECURSIVE SafeLoansLoop(_, _, _)
SafeLoansLoop(loans, rate, st) ==
    IF st.count < DoublyLinkedList_length(loans)
    THEN LET pass == ScanLoans(loans, rate, 0, [st EXCEPT !.found = FALSE])
         IN  IF pass.found THEN SafeLoansLoop(loans, rate, pass) ELSE FALSE
    ELSE TRUE

_are_safe_loans(loans, budget, rate) ==
    SafeLoansLoop(loans, rate,
                  [dispensed |-> {}, budget |-> budget, found |-> FALSE, count |-> 0])

\* -------------------------------------------- Bank::update_accounts_loans

\* Mutant of CreditLoans: the loop stops one loan early.
RECURSIVE CreditLoans_missLast(_, _, _, _)
CreditLoans_missLast(loans, rate, i, budget) ==
    IF i + 1 >= DoublyLinkedList_length(loans)
    THEN budget
    ELSE CreditLoans_missLast(loans, rate, i + 1,
             AddInterest(budget, DoublyLinkedList_at(loans, i).loan_budget, rate))

\* The crediting loop from index i on.
RECURSIVE CreditLoans(_, _, _, _)
CreditLoans(loans, rate, i, budget) ==
    IF i >= DoublyLinkedList_length(loans)
    THEN budget
    ELSE CreditLoans(loans, rate, i + 1,
                     AddInterest(budget, DoublyLinkedList_at(loans, i).loan_budget, rate))

\* Every working budget of the call stays within the unsigned range.
LoansInRange == CreditLoans(_new_loans, _loan_interest, 0, _bank_budget) <= MaxU

DoublyLinkedList_clear(list) == << >>

\* Mutant of LoansCommit: the interests are credited whatever the check says.
LoansCommit_creditAlways(loans, budget, rate) ==
    [budget  |-> CreditLoans(loans, rate, 0, budget),
     loans   |-> DoublyLinkedList_clear(loans),
     is_safe |-> _are_safe_loans(loans, budget, rate)]

\* Mutant of LoansCommit: the queue is cleared only when the batch is safe.
LoansCommit_clearWhenSafe(loans, budget, rate) ==
    LET is_safe == _are_safe_loans(loans, budget, rate)
    IN  [budget  |-> IF is_safe THEN CreditLoans(loans, rate, 0, budget) ELSE budget,
         loans   |-> IF is_safe THEN DoublyLinkedList_clear(loans) ELSE loans,
         is_safe |-> is_safe]

\* Lines 341-346 on a non-empty queue: the check, the crediting when safe,
\* the clear.  [budget, loans, is_safe] after the call.
LoansCommit(loans, budget, rate) ==
    LET is_safe == _are_safe_loans(loans, budget, rate)
    IN  [budget  |-> IF is_safe THEN CreditLoans(loans, rate, 0, budget) ELSE budget,
         loans   |-> DoublyLinkedList_clear(loans),
         is_safe |-> is_safe]

\* Mutant of UpdateAccountsLoans: an accepted batch pays the principal of
\* each loan into the borrower's account, when there is one.
RECURSIVE Disbursed(_, _, _)
Disbursed(loans, accounts, i) ==
    IF i >= DoublyLinkedList_length(loans)
    THEN accounts
    ELSE LET loan == DoublyLinkedList_at(loans, i)
         IN  Disbursed(loans,
                       IF HashTable_contains(accounts, loan.key)
                       THEN HashTable_set(accounts, loan.key,
                                (HashTable_get(accounts, loan.key) + loan.loan_budget)
                                    % Modulus)
                       ELSE accounts,
                       i + 1)

UpdateAccountsLoans_disburses ==
    /\ Call
    /\ UNCHANGED linked_list
    /\ frame' = Resume(frame)
    /\ LoansInRange
    /\ IF DoublyLinkedList_length(_new_loans) = 0
       THEN /\ ret' = Returned("update_accounts_loans", Bool(TRUE))
            /\ UNCHANGED <<_bank_budget, _new_loans, _accounts_budget>>
       ELSE LET done == LoansCommit(_new_loans, _bank_budget, _loan_interest)
            IN  /\ _bank_budget' = done.budget
                /\ _new_loans' = done.loans
                /\ _accounts_budget' = IF done.is_safe
                                       THEN Disbursed(_new_loans, _accounts_budget, 0)
                                       ELSE _accounts_budget
                /\ ret' = Returned("update_accounts_loans", Bool(done.is_safe))
    /\ UNCHANGED <<_loan_interest, _deposit_interest, _new_operations>>

UpdateAccountsLoans ==
    /\ Call
    /\ UNCHANGED linked_list
    /\ frame' = Resume(frame)
    /\ LoansInRange
    /\ IF DoublyLinkedList_length(_new_loans) = 0
       THEN /\ ret' = Returned("update_accounts_loans", Bool(TRUE))
            /\ UNCHANGED <<_bank_budget, _new_loans>>
       ELSE LET done == LoansCommit(_new_loans, _bank_budget, _loan_interest)
            IN  /\ _bank_budget' = done.budget
                /\ _new_loans' = done.loans
                /\ ret' = Returned("update_accounts_loans", Bool(done.is_safe))
    /\ UNCHANGED <<_loan_interest, _deposit_interest, _accounts_budget, _new_operations>>

\* -------------------------------------------- Bank::_are_safe_operations

\* need after the accumulation loop from index i on (unsigned, wrapping).
RECURSIVE NeedFrom(_, _, _)
NeedFrom(operations, i, need) ==
    IF i >= DoublyLinkedList_length(operations)
    THEN need
    ELSE NeedFrom(operations, i + 1,
                  (need + DoublyLinkedList_at(operations, i).new_request_budget) % Modulus)

_are_safe_operations(operations, budget) == NeedFrom(operations, 0, 0) <= budget

\* --------------------------------------- Bank::update_accounts_operations

\* The applying loop from index i on.  st = [budget, accounts, threw]; the
\* loop is left at the first operation whose table access throws.
RECURSIVE ApplyOperations(_, _, _)
ApplyOperations(operations, i, st) ==
    IF i >= DoublyLinkedList_length(operations)
    THEN st
    ELSE LET op     == DoublyLinkedList_at(operations, i)
             budget == (st.budget - op.new_request_budget) % Modulus
         IN  IF ~HashTable_contains(st.accounts, op.key)
             THEN [budget |-> budget, accounts |-> st.accounts, threw |-> TRUE]
             ELSE ApplyOperations(operations, i + 1,
                      [budget   |-> budget,
                       accounts |->
                           IF op.new_request_type = "CloseAccount"
                           THEN HashTable_remove(st.accounts, op.key)
                           ELSE HashTable_set(st.accounts, op.key,
                                    (HashTable_get(st.accounts, op.key)
                                         - op.new_request_budget) % Modulus),
                       threw    |-> FALSE])

\* Mutant of OperationsCommit: the applying loop is not guarded by the check.
OperationsCommit_applyUnchecked(operations, budget, accounts) ==
    LET done == ApplyOperations(operations, 0,
                    [budget |-> budget, accounts |-> accounts, threw |-> FALSE])
    IN  [budget     |-> done.budget,
         accounts   |-> done.accounts,
         operations |-> IF done.threw THEN operations
                        ELSE DoublyLinkedList_clear(operations),
         is_safe    |-> _are_safe_operations(operations, budget),
         threw      |-> done.threw]

\* Lines 355-373 on a non-empty queue: the check, the applying loop when
\* safe, the clear (not reached when the loop throws).
\* [budget, accounts, operations, is_safe, threw] after the call.
OperationsCommit(operations, budget, accounts) ==
    LET is_safe == _are_safe_operations(operations, budget)
        done    == IF is_safe
                   THEN ApplyOperations(operations, 0,
                            [budget |-> budget, accounts |-> accounts, threw |-> FALSE])
                   ELSE [budget |-> budget, accounts |-> accounts, threw |-> FALSE]
    IN  [budget     |-> done.budget,
         accounts   |-> done.accounts,
         operations |-> IF done.threw THEN operations
                        ELSE DoublyLinkedList_clear(operations),
         is_safe    |-> is_safe,
         threw      |-> done.threw]

UpdateAccountsOperations ==
    /\ Call
    /\ UNCHANGED linked_list
    /\ frame' = Resume(frame)
    /\ IF DoublyLinkedList_length(_new_operations) = 0
       THEN /\ ret' = Returned("update_accounts_operations", Bool(TRUE))
            /\ UNCHANGED <<_bank_budget, _accounts_budget, _new_operations>>
       ELSE LET done == OperationsCommit(_new_operations, _bank_budget, _accounts_budget)
            IN  /\ _bank_budget' = done.budget
                /\ _accounts_budget' = done.accounts
                /\ _new_operations' = done.operations
                /\ ret' = IF done.threw
                          THEN Threw("update_accounts_operations", "out_of_range")
                          ELSE Returned("update_accounts_operations", Bool(done.is_safe))
    /\ UNCHANGED <<_loan_interest, _deposit_interest, _new_loans>>

\* ------------------------------------------------- Bank::update_interests

\* budget * (1 + rate): the sum and the product are doubles, and so is the
\* budget before it is multiplied.
WithInterest(budget, rate) ==
    LET factor == Double(rate.den + rate.num, rate.den)
        amount == Double(budget, 1)
    IN  Double(amount.num * factor.num, amount.den * factor.den)

\* Assignment of a double to the unsigned budget type: the fraction is
\* truncated; a value the type cannot hold is undefined behaviour, and the
\* budget afterwards is any value of the type.
Assigned(product) ==
    IF product.num \div product.den <= MaxU
    THEN {product.num \div product.den}
    ELSE 0 .. MaxU

\* The loop over the key list from index i on: the tables it can end with.
RECURSIVE ApplyInterests(_, _, _)
ApplyInterests(accounts, rate, i) ==
    IF i >= HashTable_length(accounts)
    THEN {accounts}
    ELSE LET key == DoublyLinkedList_at(HashTable_keys(accounts), i)
         IN  UNION {ApplyInterests(HashTable_set(accounts, key, budget),
                                   rate, i + 1) :
                        budget \in Assigned(WithInterest(HashTable_get(accounts, key),
                                                         rate))}

UpdateInterests ==
    /\ Call
    /\ UNCHANGED linked_list
    /\ frame' = Resume(frame)
    /\ _accounts_budget' \in ApplyInterests(_accounts_budget, _deposit_interest, 0)
    /\ ret' = Returned("update_interests", "void")
    /\ UNCHANGED <<_bank_budget, _loan_interest, _deposit_interest,
                   _new_loans, _new_operations>>

\* ------------------------------------------- HashTable, called directly
\*
\* The public operations of the HashTable, called in any order on the table
\* of a Bank (any HashTable<std::uint64_t> of the default capacity).  Each
\* action is one member function with its throw statements; ret records the
\* call, its arguments and what it returned or threw.

\* clear: every bucket and the key list are cleared, the counter is reset.
HashTable_clear(table) ==
    [items |-> [b \in DOMAIN table.items |-> DoublyLinkedList_clear(table.items[b])],
     keys  |-> DoublyLinkedList_clear(table.keys),
     count |-> 0,
     _bucket_capacity |-> table._bucket_capacity]

TableRet(call, key, arg, value, threw) ==
    [call |-> call, key |-> key, arg |-> arg, value |-> value, threw |-> threw]

\* A Bank has been constructed: its table is empty.
InitTable ==
    /\ _bank_budget \in InitialBudgets
    /\ _loan_interest \in LoanRates
    /\ _deposit_interest \in DepositRates
    /\ _accounts_budget = HashTable_new
    /\ _new_loans = << >>
    /\ _new_operations = << >>
    /\ linked_list = Linked_new
    /\ frame = NoFrame
    /\ ret = TableRet("HashTable", 0, 0, "void", "none")
    /\ calls = 0

\* What a call on the table leaves alone.
TableFrame ==
    UNCHANGED <<_bank_budget, _loan_interest, _deposit_interest,
                _new_loans, _new_operations>>

TableInsert(key, value) ==
    /\ Call
    /\ UNCHANGED <<linked_list, frame>>
    /\ IF HashTable_contains(_accounts_budget, key)
       THEN /\ ret' = TableRet("insert", key, value, "none", "runtime_error")
            /\ UNCHANGED _accounts_budget
       ELSE /\ _accounts_budget' = HashTable_insert(_accounts_budget, key, value)
            /\ ret' = TableRet("insert", key, value, "void", "none")
    /\ TableFrame

TableRemove(key) ==
    /\ Call
    /\ UNCHANGED <<linked_list, frame>>
    /\ IF ~HashTable_contains(_accounts_budget, key)
       THEN /\ ret' = TableRet("remove", key, 0, "none", "out_of_range")
            /\ UNCHANGED _accounts_budget
       ELSE /\ _accounts_budget' = HashTable_remove(_accounts_budget, key)
            /\ ret' = TableRet("remove", key, 0, "void", "none")
    /\ TableFrame

TableClear ==
    /\ Call
    /\ UNCHANGED <<linked_list, frame>>
    /\ _accounts_budget' = HashTable_clear(_accounts_budget)
    /\ ret' = TableRet("clear", 0, 0, "void", "none")
    /\ TableFrame

\* operator[] const: the value is read.
TableGet(key) ==
    /\ Call
    /\ UNCHANGED <<linked_list, frame>>
    /\ ret' = IF ~HashTable_contains(_accounts_budget, key)
              THEN TableRet("get", key, 0, "none", "out_of_range")
              ELSE TableRet("get", key, 0,
                            ToString(HashTable_get(_accounts_budget, key)), "none")
    /\ UNCHANGED _accounts_budget
    /\ TableFrame

\* Mutant of TableSet: a missing key is inserted, as std::map's operator[]
\* does.
TableSet_insertsMissing(key, value) ==
    /\ Call
    /\ UNCHANGED <<linked_list, frame>>
    /\ _accounts_budget' =
           IF HashTable_contains(_accounts_budget, key)
           THEN HashTable_set(_accounts_budget, key, value)
           ELSE HashTable_insert(_accounts_budget, key, value)
    /\ ret' = TableRet("set", key, value, "void", "none")
    /\ TableFrame

\* operator[]: the value is assigned through the returned reference.
TableSet(key, value) ==
    /\ Call
    /\ UNCHANGED <<linked_list, frame>>
    /\ IF ~HashTable_contains(_accounts_budget, key)
       THEN /\ ret' = TableRet("set", key, value, "none", "out_of_range")
            /\ UNCHANGED _accounts_budget
       ELSE /\ _accounts_budget' = HashTable_set(_accounts_budget, key, value)
            /\ ret' = TableRet("set", key, value, "void", "none")
    /\ TableFrame

TableContains(key) ==
    /\ Call
    /\ UNCHANGED <<linked_list, frame>>
    /\ ret' = TableRet("contains", key, 0,
                       Bool(HashTable_contains(_accounts_budget, key)), "none")
    /\ UNCHANGED _accounts_budget
    /\ TableFrame

NextTable ==
    \/ \E key \in TableKeys, value \in TableValues : TableInsert(key, value)
    \/ \E key \in TableKeys : TableRemove(key)
    \/ TableClear
    \/ \E key \in TableKeys : TableGet(key)
    \/ \E key \in TableKeys, value \in TableValues : TableSet(key, value)
    \/ \E key \in TableKeys : TableContains(key)

SpecTable == InitTable /\ [][NextTable]_vars

\* The same calls on a table constructed with another capacity: 1, where
\* every key is in the one bucket, and 9, the least capacity at which no
\* two keys of TableKeys share a bucket.
Capacities == {1, 9}

InitCapacity ==
    /\ _bank_budget \in InitialBudgets
    /\ _loan_interest \in LoanRates
    /\ _deposit_interest \in DepositRates
    /\ _accounts_budget \in {HashTable_of(capacity) : capacity \in Capacities}
    /\ _new_loans = << >>
    /\ _new_operations = << >>
    /\ linked_list = Linked_new
    /\ frame = NoFrame
    /\ ret = TableRet("HashTable", 0, 0, "void", "none")
    /\ calls = 0

SpecCapacity == InitCapacity /\ [][NextTable]_vars

\* ------------------------------------ DoublyLinkedList, called directly
\*
\* The public operations of a DoublyLinkedList<NewLoan>, called in any order.

ListValues == {NewLoan(key, loan_budget) : key \in ListKeys, loan_budget \in ListAmounts}

ListRet(call, index, value, result, threw) ==
    [call |-> call, index |-> index, value |-> value, result |-> result, threw |-> threw]

\* Stands for "no index", "no value" in ret.
None == [key |-> 0, loan_budget |-> 0]

InitList ==
    /\ _bank_budget \in InitialBudgets
    /\ _loan_interest \in LoanRates
    /\ _deposit_interest \in DepositRates
    /\ _accounts_budget = HashTable_new
    /\ _new_loans = << >>
    /\ _new_operations = << >>
    /\ linked_list = Linked_new
    /\ frame = NoFrame
    /\ ret = ListRet("DoublyLinkedList", 0, None, None, "none")
    /\ calls = 0

\* What a call on the list leaves alone.
ListFrame ==
    UNCHANGED <<_bank_budget, _loan_interest, _deposit_interest, _accounts_budget,
                _new_loans, _new_operations, frame>>

\* append, while the allocator has an address left.
ListAppend(value) ==
    /\ Call
    /\ Addresses \ DOMAIN linked_list.nodes # {}
    /\ linked_list' = Linked_append(linked_list, value)
    /\ ret' = ListRet("append", 0, value, None, "none")
    /\ ListFrame

ListRemoveIndexbased(index) ==
    /\ Call
    /\ LET current_item == Seek(linked_list, linked_list._first_item, 0, index)
       IN  IF current_item # nullptr
           THEN /\ linked_list' = Linked_remove(linked_list, current_item)
                /\ ret' = ListRet("remove_indexbased", index, None, None, "none")
           ELSE /\ ret' = ListRet("remove_indexbased", index, None, None, "out_of_range")
                /\ UNCHANGED linked_list
    /\ ListFrame

ListRemoveValuebased(key) ==
    /\ Call
    /\ LET current_item == Find(linked_list, linked_list._first_item, key)
       IN  IF current_item # nullptr
           THEN /\ linked_list' = Linked_remove(linked_list, current_item)
                /\ ret' = ListRet("remove_valuebased", 0, NewLoan(key, 0), None, "none")
           ELSE /\ ret' = ListRet("remove_valuebased", 0, NewLoan(key, 0), None,
                                  "out_of_range")
                /\ UNCHANGED linked_list
    /\ ListFrame

ListClear ==
    /\ Call
    /\ linked_list' = Linked_clear(linked_list)
    /\ ret' = ListRet("clear", 0, None, None, "none")
    /\ ListFrame

\* operator[] const: the element is read.
ListAt(index) ==
    /\ Call
    /\ LET current_item == Seek(linked_list, linked_list._first_item, 0, index)
       IN  ret' = IF current_item # nullptr
                  THEN ListRet("at", index, None,
                               linked_list.nodes[current_item].value, "none")
                  ELSE ListRet("at", index, None, None, "out_of_range")
    /\ UNCHANGED linked_list
    /\ ListFrame

NextList ==
    \/ \E value \in ListValues : ListAppend(value)
    \/ \E index \in 0 .. MaxNodes : ListRemoveIndexbased(index)
    \/ \E key \in ListKeys : ListRemoveValuebased(key)
    \/ ListClear
    \/ \E index \in 0 .. MaxNodes : ListAt(index)

SpecList == InitList /\ [][NextList]_vars

\* ---------------------------------------------------------- specification

Next ==
    \/ Request
    \/ UpdateAccountsLoans
    \/ UpdateAccountsOperations
    \/ UpdateInterests

Spec == Init /\ [][Next]_vars

\* -------------------------------- update_accounts_loans, large budgets
\*
\* Loans requested and committed on a Bank whose budget is beyond the
\* significand of a double, where the conversion of the budget to double
\* and the sum with the interest are rounded.  The unsigned type is wider
\* than the significand (64 bits against 53 in the code, one bit more than
\* MantissaBits here) and no sum of this specification leaves it.

\* Number of values of the unsigned type in this specification.
WideModulus == 2 * MantissaTop

\* Budgets the Bank is constructed with: one below the significand's range
\* and the first values at which odd integers are no doubles.
LargeBudgets == {2, MantissaTop, MantissaTop + 2}

\* Amounts of the loans requested here: two small ones and the first odd
\* integer that is no double.
LargeLoanAmounts == {2, 3, MantissaTop + 1}

InitLarge ==
    /\ _bank_budget \in LargeBudgets
    /\ _loan_interest \in LoanRates
    /\ _deposit_interest \in DepositRates
    /\ _accounts_budget = HashTable_new
    /\ _new_loans = << >>
    /\ _new_operations = << >>
    /\ linked_list = Linked_new
    /\ frame = NoFrame
    /\ ret = Returned("Bank", "void")
    /\ calls = 0

\* update_accounts_loans, lines 335-347, within the wider type.
LargeUpdateAccountsLoans ==
    /\ Call
    /\ UNCHANGED <<linked_list, frame>>
    /\ CreditLoans(_new_loans, _loan_interest, 0, _bank_budget) < WideModulus
    /\ IF DoublyLinkedList_length(_new_loans) = 0
       THEN /\ ret' = Returned("update_accounts_loans", Bool(TRUE))
            /\ UNCHANGED <<_bank_budget, _new_loans>>
       ELSE LET done == LoansCommit(_new_loans, _bank_budget, _loan_interest)
            IN  /\ _bank_budget' = done.budget
                /\ _new_loans' = done.loans
                /\ ret' = Returned("update_accounts_loans", Bool(done.is_safe))
    /\ UNCHANGED <<_loan_interest, _deposit_interest, _accounts_budget, _new_operations>>

NextLarge ==
    \/ \E key \in Keys, request_budget \in LargeLoanAmounts :
           RequestLoan(key, request_budget)
    \/ LargeUpdateAccountsLoans

SpecLarge == InitLarge /\ [][NextLarge]_vars

\* ------------------------------------------------- main, the epoch loop
\*
\* The loop body of src/src/main.cpp, lines 125-204, statement by statement
\* on the caller's position: a random draw that fails is a step that makes
\* no call.  The Bank is constructed with budget 0; the amounts the
\* generators draw are those of the model.

InitDriver ==
    /\ _bank_budget = 0
    /\ _loan_interest \in LoanRates
    /\ _deposit_interest \in DepositRates
    /\ _accounts_budget = HashTable_new
    /\ _new_loans = << >>
    /\ _new_operations = << >>
    /\ linked_list = Linked_new
    /\ frame = [NoFrame EXCEPT !.pc = "epoch_remove"]
    /\ ret = Returned("Bank", "void")
    /\ calls = 0

\* Lines 130-136: an existing account, drawn by its position in keys(), is
\* asked to be closed with its whole balance.
DriverCloseAccount ==
    /\ frame.pc = "epoch_remove"
    /\ HashTable_length(_accounts_budget) > 0
    /\ \E j \in 0 .. HashTable_length(_accounts_budget) - 1 :
           LET key    == DoublyLinkedList_at(HashTable_keys(_accounts_budget), j)
               budget == HashTable_get(_accounts_budget, key)
           IN  RequestOperation(key, "CloseAccount", budget)

\* Lines 139-148: an account is opened under a key that is none yet.
DriverOpenAccount ==
    /\ frame.pc = "epoch_open"
    /\ \E key \in Keys, budget \in DepositAmounts :
           /\ ~HashTable_contains(_accounts_budget, key)
           /\ RequestOpenAccount(key, budget)

\* The account the loop of lines 151-181 is at.
DriverKey == DoublyLinkedList_at(HashTable_keys(_accounts_budget), frame.i)

\* Line 154: the loop is at an account and the account has nothing pending.
DriverHandles ==
    /\ frame.pc = "epoch_handle"
    /\ frame.i < HashTable_length(_accounts_budget)
    /\ ~pending_request(_new_loans, _new_operations, DriverKey)

\* Lines 158-164.
DriverDeposit ==
    /\ DriverHandles
    /\ \E budget \in DepositAmounts : RequestDeposit(DriverKey, budget)

\* Mutant of DriverWithdraw: the amount is drawn from the whole type.
DriverWithdraw_anyAmount ==
    /\ DriverHandles
    /\ \E budget \in 0 .. MaxU : RequestOperation(DriverKey, "Withdraw", budget)

\* Lines 165-171: the amount is drawn from 0 .. the account's balance.
DriverWithdraw ==
    /\ DriverHandles
    /\ \E budget \in 0 .. HashTable_get(_accounts_budget, DriverKey) :
           RequestOperation(DriverKey, "Withdraw", budget)

\* Lines 172-178.
DriverLoan ==
    /\ DriverHandles
    /\ \E budget \in LoanAmounts : RequestLoan(DriverKey, budget)

\* Lines 184-189.
DriverLoans ==
    /\ frame.pc = "epoch_loans"
    /\ pending_loans(_new_loans)
    /\ UpdateAccountsLoans

\* Lines 190-195.
DriverOperations ==
    /\ frame.pc = "epoch_operations"
    /\ pending_operations(_new_operations)
    /\ UpdateAccountsOperations

\* Line 196.
DriverInterests ==
    /\ frame.pc = "epoch_interests"
    /\ UpdateInterests

\* A statement that makes no call: the draw of line 130, 139 or 154 fails,
\* the account has a request pending, or there is nothing to commit.
DriverSkip ==
    /\ \/ frame.pc \in {"epoch_remove", "epoch_open"}
       \/ frame.pc = "epoch_handle" /\ frame.i < HashTable_length(_accounts_budget)
       \/ frame.pc = "epoch_loans" /\ ~pending_loans(_new_loans)
       \/ frame.pc = "epoch_operations" /\ ~pending_operations(_new_operations)
    /\ frame' = Resume(frame)
    /\ UNCHANGED <<_bank_budget, _loan_interest, _deposit_interest, _accounts_budget,
                   _new_loans, _new_operations, linked_list, ret, calls>>

\* Line 151: the loop has passed the last account.
DriverHandled ==
    /\ frame.pc = "epoch_handle"
    /\ frame.i >= HashTable_length(_accounts_budget)
    /\ frame' = [frame EXCEPT !.pc = "epoch_loans"]
    /\ UNCHANGED <<_bank_budget, _loan_interest, _deposit_interest, _accounts_budget,
                   _new_loans, _new_operations, linked_list, ret, calls>>

NextDriver ==
    \/ DriverCloseAccount
    \/ DriverOpenAccount
    \/ DriverDeposit
    \/ DriverWithdraw
    \/ DriverLoan
    \/ DriverLoans
    \/ DriverOperations
    \/ DriverInterests
    \/ DriverSkip
    \/ DriverHandled

SpecDriver == InitDriver /\ [][NextDriver]_vars

\* ------------------------------------- the batch commits, step by step
\*
\* update_accounts_loans and update_accounts_operations executed one
\* statement (one loop iteration) at a time by the thread that commits the
\* epochs, while other threads call request.  The Bank has no lock of its
\* own: in SpecLocked the callers keep every public call under one mutex, so
\* a request runs only while no commit is running; in SpecRacing they do
\* not, and a request may run between any two steps of a commit.

\* Lines 338-341 and 417-423: the test of the queue, and the locals of
\* _are_safe_loans.
LoansEnter ==
    /\ frame.pc = "idle"
    /\ Call
    /\ LoansInRange
    /\ IF DoublyLinkedList_length(_new_loans) = 0
       THEN /\ ret' = Returned("update_accounts_loans", Bool(TRUE))
            /\ UNCHANGED frame
       ELSE /\ frame' = [NoFrame EXCEPT !.pc = "while",
                                        !.size = DoublyLinkedList_length(_new_loans),
                                        !.budget = _bank_budget]
            /\ UNCHANGED ret
    /\ UNCHANGED <<_bank_budget, _loan_interest, _deposit_interest, _accounts_budget,
                   _new_loans, _new_operations, linked_list>>

\* Line 424, the test of the while loop: another pass, or the return of
\* _are_safe_loans and the test of line 342.
LoansWhile ==
    /\ frame.pc = "while"
    /\ frame' = IF frame.count < DoublyLinkedList_length(_new_loans) /\ frame.is_safe
                THEN [frame EXCEPT !.pc = "for", !.found = FALSE, !.i = 0,
                                   !.passes = @ + 1]
                ELSE [frame EXCEPT !.pc = IF frame.is_safe THEN "credit" ELSE "clear_loans",
                                   !.i = 0,
                                   !.checked = DoublyLinkedList_length(_new_loans)]
    /\ UNCHANGED <<_bank_budget, _loan_interest, _deposit_interest, _accounts_budget,
                   _new_loans, _new_operations, linked_list, ret, calls>>

\* dispensed[i]: the flag, when the array allocated at line 417 has the
\* index; any value when it has not (a read past the end of the array).
DispensedAt(locals, i) ==
    IF i < locals.size THEN {i \in locals.dispensed} ELSE BOOLEAN

\* Mutant of Dispense: the loan is not counted.
Dispense_notCounted(locals, i, loan_budget, rate) ==
    [locals EXCEPT !.budget = AddInterest(locals.budget, loan_budget, rate),
                   !.dispensed = IF i < locals.size THEN @ \cup {i} ELSE @,
                   !.found = TRUE]

\* Lines 434-438: the loan at index i is dispensed.
Dispense(locals, i, loan_budget, rate) ==
    [locals EXCEPT !.budget = AddInterest(locals.budget, loan_budget, rate),
                   !.dispensed = IF i < locals.size THEN @ \cup {i} ELSE @,
                   !.found = TRUE,
                   !.count = @ + 1]

\* Lines 428-445: one iteration of the for loop, or its end and the test of
\* found.
LoansFor ==
    /\ frame.pc = "for"
    /\ IF frame.i < DoublyLinkedList_length(_new_loans)
       THEN LET loan_budget == DoublyLinkedList_at(_new_loans, frame.i).loan_budget
            IN  \E flag \in DispensedAt(frame, frame.i) :
                    IF ~flag /\ loan_budget <= frame.budget
                    THEN /\ AddInterest(frame.budget, loan_budget, _loan_interest) <= MaxU
                         /\ frame' = [Dispense(frame, frame.i, loan_budget, _loan_interest)
                                          EXCEPT !.i = @ + 1]
                    ELSE frame' = [frame EXCEPT !.i = @ + 1]
       ELSE frame' = [frame EXCEPT !.pc = "while",
                                   !.is_safe = IF frame.found THEN @ ELSE FALSE]
    /\ UNCHANGED <<_bank_budget, _loan_interest, _deposit_interest, _accounts_budget,
                   _new_loans, _new_operations, linked_list, ret, calls>>

\* Mutant of LoansCredit: the loop runs over the loans the check has seen.
LoansCredit_checkedOnly ==
    /\ frame.pc = "credit"
    /\ IF frame.i < frame.checked
       THEN LET loan_budget == DoublyLinkedList_at(_new_loans, frame.i).loan_budget
            IN  /\ AddInterest(_bank_budget, loan_budget, _loan_interest) <= MaxU
                /\ _bank_budget' = AddInterest(_bank_budget, loan_budget, _loan_interest)
                /\ frame' = [frame EXCEPT !.i = @ + 1]
       ELSE /\ frame' = [frame EXCEPT !.pc = "clear_loans"]
            /\ UNCHANGED _bank_budget
    /\ UNCHANGED <<_loan_interest, _deposit_interest, _accounts_budget,
                   _new_loans, _new_operations, linked_list, ret, calls>>

\* Lines 343-344: one iteration of the crediting loop, or its end.
LoansCredit ==
    /\ frame.pc = "credit"
    /\ IF frame.i < DoublyLinkedList_length(_new_loans)
       THEN LET loan_budget == DoublyLinkedList_at(_new_loans, frame.i).loan_budget
            IN  /\ AddInterest(_bank_budget, loan_budget, _loan_interest) <= MaxU
                /\ _bank_budget' = AddInterest(_bank_budget, loan_budget, _loan_interest)
                /\ frame' = [frame EXCEPT !.i = @ + 1]
       ELSE /\ frame' = [frame EXCEPT !.pc = "clear_loans"]
            /\ UNCHANGED _bank_budget
    /\ UNCHANGED <<_loan_interest, _deposit_interest, _accounts_budget,
                   _new_loans, _new_operations, linked_list, ret, calls>>

\* Lines 345-346: the queue is cleared and is_safe returned.
LoansClear ==
    /\ frame.pc = "clear_loans"
    /\ _new_loans' = DoublyLinkedList_clear(_new_loans)
    /\ ret' = Returned("update_accounts_loans", Bool(frame.is_safe))
    /\ frame' = NoFrame
    /\ UNCHANGED <<_bank_budget, _loan_interest, _deposit_interest, _accounts_budget,
                   _new_operations, linked_list, calls>>

\* Lines 352-356: the test of the queue, the safety check and its test.
OperationsEnter ==
    /\ frame.pc = "idle"
    /\ Call
    /\ IF DoublyLinkedList_length(_new_operations) = 0
       THEN /\ ret' = Returned("update_accounts_operations", Bool(TRUE))
            /\ UNCHANGED frame
       ELSE LET is_safe == _are_safe_operations(_new_operations, _bank_budget)
            IN  /\ frame' = [NoFrame EXCEPT
                                !.pc = IF is_safe THEN "apply" ELSE "clear_operations",
                                !.is_safe = is_safe,
                                !.checked = DoublyLinkedList_length(_new_operations)]
                /\ UNCHANGED ret
    /\ UNCHANGED <<_bank_budget, _loan_interest, _deposit_interest, _accounts_budget,
                   _new_loans, _new_operations, linked_list>>

\* Lines 358-370: one iteration of the applying loop, which a table access
\* may leave by an exception, or its end.
OperationsApply ==
    /\ frame.pc = "apply"
    /\ IF frame.i < DoublyLinkedList_length(_new_operations)
       THEN LET op == DoublyLinkedList_at(_new_operations, frame.i)
            IN  /\ _bank_budget' = (_bank_budget - op.new_request_budget) % Modulus
                /\ IF ~HashTable_contains(_accounts_budget, op.key)
                   THEN /\ ret' = Threw("update_accounts_operations", "out_of_range")
                        /\ frame' = NoFrame
                        /\ UNCHANGED _accounts_budget
                   ELSE /\ _accounts_budget' =
                               IF op.new_request_type = "CloseAccount"
                               THEN HashTable_remove(_accounts_budget, op.key)
                               ELSE HashTable_set(_accounts_budget, op.key,
                                        (HashTable_get(_accounts_budget, op.key)
                                             - op.new_request_budget) % Modulus)
                        /\ frame' = [frame EXCEPT !.i = @ + 1]
                        /\ UNCHANGED ret
       ELSE /\ frame' = [frame EXCEPT !.pc = "clear_operations"]
            /\ UNCHANGED <<_bank_budget, _accounts_budget, ret>>
    /\ UNCHANGED <<_loan_interest, _deposit_interest, _new_loans, _new_operations,
                   linked_list, calls>>

\* Lines 372-373: the queue is cleared and is_safe returned.
OperationsClear ==
    /\ frame.pc = "clear_operations"
    /\ _new_operations' = DoublyLinkedList_clear(_new_operations)
    /\ ret' = Returned("update_accounts_operations", Bool(frame.is_safe))
    /\ frame' = NoFrame
    /\ UNCHANGED <<_bank_budget, _loan_interest, _deposit_interest, _accounts_budget,
                   _new_loans, linked_list, calls>>

\* A step of the commit that is running.
Running ==
    \/ LoansWhile
    \/ LoansFor
    \/ LoansCredit
    \/ LoansClear
    \/ OperationsApply
    \/ OperationsClear

\* A request made while the mutex is free.
LockedRequest == frame.pc = "idle" /\ Request

NextLocked ==
    \/ LockedRequest
    \/ LoansEnter
    \/ OperationsEnter
    \/ Running

NextRacing ==
    \/ Request
    \/ LoansEnter
    \/ OperationsEnter
    \/ Running

SpecLocked == Init /\ [][NextLocked]_vars

SpecRacing == Init /\ [][NextRacing]_vars

\* A commit that has begun goes on executing until it returns or throws.
SpecLockedFair == SpecLocked /\ WF_vars(Running)

\* ------------------------------------------------- vocabulary of the claims

\* The step is a call of the named operation.
LoansStep == ret'.call = "update_accounts_loans" /\ calls' = calls + 1
OperationsStep == ret'.call = "update_accounts_operations" /\ calls' = calls + 1

\* The last call was the named operation.
AfterLoans == ret.call = "update_accounts_loans"
AfterOperations == ret.call = "update_accounts_operations"

\* The total of the amounts of the pending operations, as a number (no wrap).
RECURSIVE OperationsTotal(_)
OperationsTotal(operations) ==
    IF operations = << >> THEN 0
    ELSE Head(operations).new_request_budget + OperationsTotal(Tail(operations))

\* The total of the Withdraw amounts the batch names for the key, as a number.
RECURSIVE WithdrawnFrom(_, _)
WithdrawnFrom(operations, key) ==
    IF operations = << >> THEN 0
    ELSE (IF Head(operations).key = key /\ Head(operations).new_request_type = "Withdraw"
          THEN Head(operations).new_request_budget ELSE 0)
         + WithdrawnFrom(Tail(operations), key)

\* The keys the batch names in an operation of the kind.
NamedBy(operations, kind) ==
    {operations[i].key : i \in {j \in 1 .. Len(operations) :
                                    operations[j].new_request_type = kind}}

\* The accounts and their balances, as the callers see them through exist
\* and get_account_budget.
Exists(key) == HashTable_contains(_accounts_budget, key)
Balance(key) == HashTable_get(_accounts_budget, key)

\* ------------------------------------------------------------------ claims

\* C1: the bank-wide budget never goes below zero: whenever
\* update_accounts_operations accepts a batch, the total of the amounts it
\* subtracts is at most the bank budget before the call.
C1_BudgetNeverWraps ==
    [][(OperationsStep /\ ret'.value = "true")
          => OperationsTotal(_new_operations) <= _bank_budget]_vars

\* C2: no balance goes below zero: whenever update_accounts_operations
\* accepts a batch, the withdrawals it makes from an account total at most
\* that account's balance before the call.
C2_BalanceNeverWraps ==
    [][(OperationsStep /\ ret'.value = "true")
          => \A key \in Keys :
                 Exists(key) => WithdrawnFrom(_new_operations, key) <= Balance(key)]_vars

\* C3: update_accounts_operations is all-or-nothing: a call either changes
\* neither the bank budget nor the ledger, or it has applied the whole
\* batch: the budget is down by every amount, every account a CloseAccount
\* names is gone, and the queue has been consumed.
C3_NothingApplied == UNCHANGED <<_bank_budget, _accounts_budget>>

C3_EverythingApplied ==
    /\ ret'.threw = "none"
    /\ _new_operations' = << >>
    /\ _bank_budget' = (_bank_budget - OperationsTotal(_new_operations)) % Modulus
    /\ \A key \in NamedBy(_new_operations, "CloseAccount") :
           ~HashTable_contains(_accounts_budget', key)

C3_AllOrNothing ==
    [][OperationsStep => (C3_NothingApplied \/ C3_EverythingApplied)]_vars

\* C4: with a non-empty loan queue, update_accounts_loans returns true
\* exactly when repeated scans dispense every loan.  A scan from the flagged
\* set D and working budget b dispenses the set N of positions outside D
\* such that i is in N exactly when its amount is at most b plus the
\* interests of the positions of N before i.
C4_Interest(amount, rate) == (amount * rate.num) \div rate.den

RECURSIVE C4_Sum(_, _, _)
C4_Sum(loans, rate, S) ==
    IF S = {} THEN 0
    ELSE LET i == CHOOSE j \in S : TRUE
         IN  C4_Interest(loans[i].loan_budget, rate) + C4_Sum(loans, rate, S \ {i})

C4_Scan(loans, rate, D, b) ==
    CHOOSE N \in SUBSET ((1 .. Len(loans)) \ D) :
        \A i \in (1 .. Len(loans)) \ D :
            i \in N <=> loans[i].loan_budget
                            <= b + C4_Sum(loans, rate, {j \in N : j < i})

RECURSIVE C4_DispensesAll(_, _, _, _)
C4_DispensesAll(loans, rate, D, b) ==
    IF D = 1 .. Len(loans) THEN TRUE
    ELSE LET N == C4_Scan(loans, rate, D, b)
         IN  IF N = {} THEN FALSE
             ELSE C4_DispensesAll(loans, rate, D \cup N, b + C4_Sum(loans, rate, N))

C6_RejectedLoansChangeNothing ==
    [][LoansStep
          => /\ ret'.threw = "none"
             /\ ret'.value = "false"
                    => UNCHANGED <<_bank_budget, _accounts_budget>>]_vars

\* A batch has been rejected with an account on the ledger.
C6_Witness ==
    /\ AfterLoans
    /\ ret.value = "false"
    /\ HashTable_length(_accounts_budget) > 0

\* C7: after any call of update_accounts_loans the loan queue is empty:
\* pending_loans is false, and pending_request is false for every key that
\* had a pending loan and no pending operation.
C7_LoansConsumed ==
    [][LoansStep
          => /\ ~pending_loans(_new_loans')
             /\ \A key \in Keys :
                    (/\ DoublyLinkedList_contains_key(_new_loans, key)
                     /\ ~DoublyLinkedList_contains_key(_new_operations, key))
                        => ~pending_request(_new_loans', _new_operations', key)]_vars

\* A batch has been rejected while an operation is pending.
C7_Witness ==
    /\ AfterLoans
    /\ ret.value = "false"
    /\ pending_operations(_new_operations)

\* C8: with a non-empty operations queue, update_accounts_operations accepts
\* (does not reject) exactly when the total of the pending amounts is at
\* most the bank budget.
C8_AcceptsIffTotalFits ==
    [][(OperationsStep /\ pending_operations(_new_operations))
          => (ret'.value # "false"
                 <=> OperationsTotal(_new_operations) <= _bank_budget)]_vars

\* C9: when update_accounts_operations accepts, the bank budget is down by
\* the total of the amounts, every account a CloseAccount names is removed,
\* every other account a Withdraw names has its balance down by its
\* withdrawals, and the accounts the batch does not name are unchanged.
C9_AcceptedApplied ==
    [][(OperationsStep /\ pending_operations(_new_operations) /\ ret'.value = "true")
          => /\ _bank_budget' = _bank_budget - OperationsTotal(_new_operations)
             /\ \A key \in Keys :
                    IF key \in NamedBy(_new_operations, "CloseAccount")
                    THEN ~HashTable_contains(_accounts_budget', key)
                    ELSE /\ HashTable_contains(_accounts_budget', key) <=> Exists(key)
                         /\ Exists(key)
                                => HashTable_get(_accounts_budget', key)
                                      = Balance(key)
                                          - WithdrawnFrom(_new_operations, key)]_vars

\* C10: when update_accounts_operations rejects, it returns false, throws
\* nothing and leaves the bank budget and the ledger as they were.
C10_RejectedOperationsChangeNothing ==
    [][(OperationsStep /\ ret'.value = "false")
          => /\ ret'.threw = "none"
             /\ UNCHANGED <<_bank_budget, _accounts_budget>>]_vars

\* Budget 3 with one account: a batch of 3 and 1 (need 4) has been rejected.
C10_Witness ==
    /\ AfterOperations
    /\ ret.value = "false"
    /\ _bank_budget = 3
    /\ HashTable_length(_accounts_budget) = 1

\* C11: after any call of update_accounts_operations on a pending batch,
\* whatever its outcome (accepted, rejected or ended by an exception), the
\* operations queue is empty: pending_operations returns false.
C11_OperationsConsumed ==
    [][(OperationsStep /\ pending_operations(_new_operations))
          => ~pending_operations(_new_operations')]_vars

\* C12: every pending record is consumed by exactly one batch-commit call:
\* no call of update_accounts_loans or update_accounts_operations leaves a
\* record in its queue for a later call, and a call on an empty queue
\* returns true and changes neither the bank budget nor the ledger.
C12_LoansOnce ==
    LoansStep
        => /\ _new_loans' = << >>
           /\ ~pending_loans(_new_loans)
                  => /\ ret' = Returned("update_accounts_loans", "true")
                     /\ UNCHANGED <<_bank_budget, _accounts_budget>>

C12_OperationsOnce ==
    OperationsStep
        => /\ _new_operations' = << >>
           /\ ~pending_operations(_new_operations)
                  => /\ ret' = Returned("update_accounts_operations", "true")
                     /\ UNCHANGED <<_bank_budget, _accounts_budget>>

C12_ConsumedExactlyOnce == [][C12_LoansOnce /\ C12_OperationsOnce]_vars

\* The accounts other than key are as they were: the same ones exist, with
\* the same balances.
OtherAccountsUnchanged(key) ==
    \A other \in Keys \ {key} :
        /\ HashTable_contains(_accounts_budget', other) <=> Exists(other)
        /\ Exists(other) => HashTable_get(_accounts_budget', other) = Balance(other)

\* C13: OpenAccount and Deposit are applied at request time.  An OpenAccount
\* of amount a on an absent key adds a to the bank budget and makes the
\* account exist with balance a; a Deposit of a on an existing account adds a
\* to the bank budget and to that balance; neither changes a queue or
\* another account.
C13_OpenApplied(key, a) ==
    /\ ret' = Returned("request", "void")
    /\ _bank_budget' = _bank_budget + a
    /\ HashTable_contains(_accounts_budget', key)
    /\ HashTable_get(_accounts_budget', key) = a
    /\ HashTable_length(_accounts_budget') = HashTable_length(_accounts_budget) + 1
    /\ OtherAccountsUnchanged(key)
    /\ UNCHANGED <<_new_loans, _new_operations>>

C13_DepositApplied(key, a) ==
    /\ ret' = Returned("request", "void")
    /\ _bank_budget' = _bank_budget + a
    /\ HashTable_contains(_accounts_budget', key)
    /\ HashTable_get(_accounts_budget', key) = Balance(key) + a
    /\ HashTable_length(_accounts_budget') = HashTable_length(_accounts_budget)
    /\ OtherAccountsUnchanged(key)
    /\ UNCHANGED <<_new_loans, _new_operations>>

C14_FailedRequests ==
    [][\A key \in Keys, a \in DepositAmounts :
           /\ (RequestDeposit(key, a) /\ ~Exists(key))
                  => /\ ret' = Threw("request", "out_of_range")
                     /\ UNCHANGED <<_accounts_budget, _new_loans, _new_operations>>
           /\ (RequestOpenAccount(key, a) /\ Exists(key))
                  => /\ ret' = Threw("request", "runtime_error")
                     /\ UNCHANGED <<_accounts_budget, _new_loans, _new_operations>>]_vars

\* An OpenAccount has failed on an existing key while requests are pending.
C14_Witness ==
    /\ ret = Threw("request", "runtime_error")
    /\ HashTable_length(_accounts_budget) = 1
    /\ pending_operations(_new_operations)

\* C15: a CloseAccount, Withdraw or Loan request never fails and is not
\* executed at once: it appends exactly one record at the end of the
\* operations queue (CloseAccount, Withdraw) or of the loans queue (Loan) and
\* leaves the bank budget, the ledger and the other queue unchanged, whether
\* or not the account exists.
C15_AppendedLast(queue, after, record) ==
    /\ Len(after) = Len(queue) + 1
    /\ after[Len(after)] = record
    /\ \A i \in 1 .. Len(queue) : after[i] = queue[i]

C15_DeferredRequests ==
    [][\A key \in Keys :
           /\ \A a \in OperationAmounts, kind \in {"CloseAccount", "Withdraw"} :
                  RequestOperation(key, kind, a)
                      => /\ ret' = Returned("request", "void")
                         /\ C15_AppendedLast(_new_operations, _new_operations',
                                             NewOperation(key, kind, a))
                         /\ UNCHANGED <<_bank_budget, _accounts_budget, _new_loans>>
           /\ \A a \in LoanAmounts :
                  RequestLoan(key, a)
                      => /\ ret' = Returned("request", "void")
                         /\ C15_AppendedLast(_new_loans, _new_loans', NewLoan(key, a))
                         /\ UNCHANGED <<_bank_budget, _accounts_budget,
                                        _new_operations>>]_vars

\* Two operations are queued, the second one for an account that does not
\* exist, and nothing else has changed since the account 1 was opened.
C15_Witness ==
    /\ ret = Returned("request", "void")
    /\ calls = 3
    /\ Len(_new_operations) = 2
    /\ Exists(_new_operations[1].key)
    /\ ~Exists(_new_operations[2].key)
    /\ _bank_budget = 2 + Balance(1)

\* C16: pending_request(key) is true exactly when a record with that key is
\* in the loans queue or in the operations queue, whatever its kind and
\* amount; it is true after a Loan, Withdraw or CloseAccount request for the
\* key, and false again after the batch commit of the queue that holds the
\* key's records.
C16_HasRecord(queue, key) == \E i \in 1 .. Len(queue) : queue[i].key = key

C16_Exactly ==
    \A key \in Keys :
        pending_request(_new_loans, _new_operations, key)
            <=> (C16_HasRecord(_new_loans, key) \/ C16_HasRecord(_new_operations, key))

C16_TrueOnRequest(key) ==
    (\/ \E a \in LoanAmounts : RequestLoan(key, a)
     \/ \E a \in OperationAmounts, kind \in {"CloseAccount", "Withdraw"} :
            RequestOperation(key, kind, a))
        => pending_request(_new_loans', _new_operations', key)

C16_FalseOnCommit(key) ==
    /\ (LoansStep /\ ~C16_HasRecord(_new_operations, key))
           => ~pending_request(_new_loans', _new_operations', key)
    /\ (OperationsStep /\ ~C16_HasRecord(_new_loans, key))
           => ~pending_request(_new_loans', _new_operations', key)

C16_PendingRequest ==
    [][/\ C16_Exactly
       /\ \A key \in Keys : C16_TrueOnRequest(key) /\ C16_FalseOnCommit(key)]_vars

\* ------------------------------------------------- claims on the HashTable

\* The keys stored in the bucket b, and the keys of the key list.
StoredKeys(table, b) ==
    {table.items[b][i].key : i \in 1 .. Len(table.items[b])}

LiveKeys(table) == UNION {StoredKeys(table, b) : b \in DOMAIN table.items}

ListedKeys(table) == {table.keys[i] : i \in 1 .. Len(table.keys)}

\* C17: after any sequence of insert, remove and clear (and of the
\* operations that only read or assign a value), keys are unique: no bucket
\* holds a key twice and every key is in the bucket it hashes to; the keys in
\* the buckets are the keys of the key list, each listed exactly once; and
\* length() is the number of live keys and the length of keys().
C17_TableConsistent ==
    /\ \A b \in DOMAIN _accounts_budget.items :
           /\ \A i, j \in 1 .. Len(_accounts_budget.items[b]) :
                  _accounts_budget.items[b][i].key = _accounts_budget.items[b][j].key
                      => i = j
           /\ \A key \in StoredKeys(_accounts_budget, b) : _hash_function(_accounts_budget, key) = b
    /\ LiveKeys(_accounts_budget) = ListedKeys(_accounts_budget)
    /\ \A i, j \in 1 .. Len(_accounts_budget.keys) :
           _accounts_budget.keys[i] = _accounts_budget.keys[j] => i = j
    /\ HashTable_length(_accounts_budget) = Cardinality(LiveKeys(_accounts_budget))
    /\ HashTable_length(_accounts_budget)
           = DoublyLinkedList_length(HashTable_keys(_accounts_budget))

\* A key has been removed from a table that still holds two keys in one
\* bucket.
C17_Witness ==
    /\ ret.call = "remove"
    /\ ret.threw = "none"
    /\ HashTable_length(_accounts_budget) = 2
    /\ Len(_accounts_budget.items[_hash_function(_accounts_budget, 1)]) = 2

\* C18: round trip.  Right after a successful insert(K, V) a get of K
\* returns V and contains(K) returns true; right after a successful
\* remove(K) contains(K) returns false and a get of K fails with KeyNotFound
\* (std::out_of_range).
C18_AfterInsert ==
    (ret.call = "insert" /\ ret.threw = "none")
        => /\ (ret'.call = "get" /\ ret'.key = ret.key)
                  => ret'.threw = "none" /\ ret'.value = ToString(ret.arg)
           /\ (ret'.call = "contains" /\ ret'.key = ret.key)
                  => ret'.value = "true"

C18_AfterRemove ==
    (ret.call = "remove" /\ ret.threw = "none")
        => /\ (ret'.call = "contains" /\ ret'.key = ret.key)
                  => ret'.value = "false"
           /\ (ret'.call = "get" /\ ret'.key = ret.key)
                  => ret'.threw = "out_of_range"

C18_RoundTrip == [][C18_AfterInsert /\ C18_AfterRemove]_vars

\* Two colliding keys inserted, then the second one read: its own value.
C18_Witness ==
    /\ calls = 3
    /\ ret = TableRet("get", Pow2(16) + 1, 0, "2", "none")
    /\ Len(_accounts_budget.items[_hash_function(_accounts_budget, 1)]) = 2
    /\ DoublyLinkedList_at(HashTable_keys(_accounts_budget), 1) = Pow2(16) + 1
    /\ HashTable_get(_accounts_budget, 1) = 1

RECURSIVE WalkFrom(_, _, _)
WalkFrom(nodes, item, fuel) ==
    IF item = nullptr \/ item \notin DOMAIN nodes \/ fuel = 0
    THEN << >>
    ELSE <<nodes[item].value>> \o WalkFrom(nodes, nodes[item].next, fuel - 1)

Walk(l) == WalkFrom(l.nodes, l._first_item, MaxNodes + 1)

\* The sequence without the element at the 0-based position.
WithoutPosition(seq, index) ==
    SubSeq(seq, 1, index) \o SubSeq(seq, index + 2, Len(seq))

\* C20: remove_indexbased(i) with i < length removes exactly the i-th
\* element: the list afterwards is the list before with position i deleted
\* (the other elements keep their values and their order), length() is one
\* less and no node is left allocated beside the elements; so it is for
\* i = 0, for i = length - 1 and for a list of one element.
C20_RemovesExactlyIth ==
    [][(ret'.call = "remove_indexbased" /\ ret'.index < Linked_length(linked_list))
          => /\ ret'.threw = "none"
             /\ Walk(linked_list') = WithoutPosition(Walk(linked_list), ret'.index)
             /\ Linked_length(linked_list') = Linked_length(linked_list) - 1
             /\ Linked_length(linked_list') = Len(Walk(linked_list'))
             /\ Cardinality(DOMAIN linked_list'.nodes) = Len(Walk(linked_list'))]_vars

\* The middle element of a list of three has been removed.
C20_Witness ==
    /\ ret.call = "remove_indexbased"
    /\ ret.threw = "none"
    /\ ret.index = 1
    /\ calls = 4
    /\ Len(Walk(linked_list)) = 2
    /\ Walk(linked_list)[1].key # Walk(linked_list)[2].key

\* The 0-based position of the first element of the sequence with the key.
FirstPositionOfKey(seq, key) ==
    CHOOSE p \in 0 .. Len(seq) - 1 :
        /\ seq[p + 1].key = key
        /\ \A q \in 0 .. p - 1 : seq[q + 1].key # key

\* C21: remove_valuebased(v) removes only the first (lowest-index) element
\* equal to v under the element's equality (NewLoan: the key): the list
\* afterwards is the list before with that one position deleted, so later
\* equal elements and all other elements stay in their order, and length()
\* is one less.
C21_RemovesFirstMatch ==
    [][(/\ ret'.call = "remove_valuebased"
        /\ \E i \in 1 .. Len(Walk(linked_list)) :
               Walk(linked_list)[i].key = ret'.value.key)
          => /\ ret'.threw = "none"
             /\ Walk(linked_list')
                    = WithoutPosition(Walk(linked_list),
                          FirstPositionOfKey(Walk(linked_list), ret'.value.key))
             /\ Linked_length(linked_list') = Linked_length(linked_list) - 1
             /\ Linked_length(linked_list') = Len(Walk(linked_list'))]_vars

\* Two elements with key 1 were appended and the value with key 1 removed:
\* the later one, NewLoan(1, 2), is left.
C21_Witness ==
    /\ ret.call = "remove_valuebased"
    /\ ret.threw = "none"
    /\ ret.value.key = 1
    /\ calls = 3
    /\ Walk(linked_list) = <<NewLoan(1, 2)>>

\* A step of update_interests.
InterestsStep == ret'.call = "update_interests" /\ calls' = calls + 1

\* C22: interest application is monotonic: after update_interests every
\* account's balance is at least its balance before the call.
C22_InterestMonotonic ==
    [][InterestsStep
          => \A key \in Keys :
                 Exists(key) => HashTable_get(_accounts_budget', key) >= Balance(key)]_vars

\* The positions of the queued loans whose key is, or is not, an account.
LoansOfAccounts == {i \in 1 .. Len(_new_loans) : Exists(_new_loans[i].key)}
LoansOfOthers == {i \in 1 .. Len(_new_loans) : ~Exists(_new_loans[i].key)}

\* C25: update_accounts_loans never changes the set of accounts, a balance
\* or the operations queue; an accepted batch changes the bank budget only,
\* by the interests of all the queued loans, those whose key is not an
\* existing account included.
C25_LoansFrame ==
    [][LoansStep
          => /\ \A key \in Keys :
                    /\ HashTable_contains(_accounts_budget', key) <=> Exists(key)
                    /\ Exists(key) => HashTable_get(_accounts_budget', key) = Balance(key)
             /\ HashTable_keys(_accounts_budget') = HashTable_keys(_accounts_budget)
             /\ _new_operations' = _new_operations
             /\ ret'.value = "true"
                    => _bank_budget' = _bank_budget
                           + C4_Sum(_new_loans, _loan_interest, LoansOfAccounts)
                           + C4_Sum(_new_loans, _loan_interest, LoansOfOthers)]_vars

\* A loan was accepted (budget 2 + 1 + 1) while account 1 held 1 and a
\* Withdraw was pending: the account and the pending operation are there.
C25_Witness ==
    /\ AfterLoans
    /\ ret.value = "true"
    /\ calls = 4
    /\ _bank_budget = 4
    /\ Exists(1) /\ Balance(1) = 1 /\ ~Exists(2)
    /\ pending_operations(_new_operations)
    /\ ~pending_loans(_new_loans)

\* b x (1 + rate) truncated to an integer, in exact arithmetic.
C26_Truncated(budget, rate) == (budget * (rate.den + rate.num)) \div rate.den

\* C26: update_interests replaces the balance b of each existing account by
\* b x (1 + deposit rate) truncated to an integer, and leaves the bank
\* budget, the set and the enumeration order of the accounts and both
\* pending queues unchanged.
C26_InterestsApplied ==
    [][InterestsStep
          => /\ \A key \in Keys :
                    /\ HashTable_contains(_accounts_budget', key) <=> Exists(key)
                    /\ Exists(key)
                           => HashTable_get(_accounts_budget', key)
                                  = C26_Truncated(Balance(key), _deposit_interest)
             /\ HashTable_keys(_accounts_budget') = HashTable_keys(_accounts_budget)
             /\ UNCHANGED <<_bank_budget, _new_loans, _new_operations>>]_vars

\* A call on the table has been made.
TableStep == calls' = calls + 1

\* The sequence without the entries equal to the key.
WithoutKey(seq, key) == SelectSeq(seq, LAMBDA k : k # key)

\* C27: keys() enumerates exactly the live keys in the order of their most
\* recent insertion: an insert appends the key at the end and the key maps
\* to the inserted value, a remove deletes the key and keeps the order of
\* the others, clear empties the enumeration, and no other call changes it.
C27_KeysInInsertionOrder ==
    [][TableStep
          => /\ ListedKeys(_accounts_budget') = LiveKeys(_accounts_budget')
             /\ IF ret'.threw # "none"
                THEN HashTable_keys(_accounts_budget') = HashTable_keys(_accounts_budget)
                ELSE CASE ret'.call = "insert" ->
                            /\ HashTable_keys(_accounts_budget')
                                   = Append(HashTable_keys(_accounts_budget), ret'.key)
                            /\ HashTable_get(_accounts_budget', ret'.key) = ret'.arg
                       [] ret'.call = "remove" ->
                            HashTable_keys(_accounts_budget')
                                = WithoutKey(HashTable_keys(_accounts_budget), ret'.key)
                       [] ret'.call = "clear" ->
                            HashTable_keys(_accounts_budget') = << >>
                       [] OTHER ->
                            HashTable_keys(_accounts_budget')
                                = HashTable_keys(_accounts_budget)]_vars

\* Keys 1 and 2 were inserted with value 1, 1 was removed and inserted again
\* with value 2: it is enumerated after 2 and maps to 2.
C27_Witness ==
    /\ ret.call = "insert" /\ ret.threw = "none" /\ ret.key = 1 /\ ret.arg = 2
    /\ calls = 4
    /\ HashTable_keys(_accounts_budget) = <<2, 1>>
    /\ HashTable_get(_accounts_budget, 1) = 2
    /\ HashTable_get(_accounts_budget, 2) = 1

\* C28: insert, set and remove of a key leave the presence and the value of
\* every other key unchanged, the keys of the same bucket included.
C28_OtherKeysUnchanged ==
    [][(TableStep /\ ret'.call \in {"insert", "set", "remove"})
          => \A other \in TableKeys \ {ret'.key} :
                 /\ HashTable_contains(_accounts_budget', other)
                        <=> HashTable_contains(_accounts_budget, other)
                 /\ HashTable_contains(_accounts_budget, other)
                        => HashTable_get(_accounts_budget', other)
                               = HashTable_get(_accounts_budget, other)]_vars

\* The three colliding keys were inserted and key 1 removed: the other two
\* are in the bucket with their own values.
C28_Witness ==
    /\ ret.call = "remove" /\ ret.threw = "none" /\ ret.key = 1
    /\ calls = 4
    /\ ~HashTable_contains(_accounts_budget, 1)
    /\ _hash_function(_accounts_budget, Pow2(16) + 1) = _hash_function(_accounts_budget, 1)
    /\ _hash_function(_accounts_budget, Pow2(17) + 1) = _hash_function(_accounts_budget, 1)
    /\ HashTable_contains(_accounts_budget, Pow2(16) + 1)
    /\ HashTable_contains(_accounts_budget, Pow2(17) + 1)
    /\ HashTable_get(_accounts_budget, Pow2(16) + 1) = 1
    /\ HashTable_get(_accounts_budget, Pow2(17) + 1) = 2

\* A call on the list has been made.
ListStep == calls' = calls + 1

\* C29: misuse of the list fails without changing it: remove_indexbased(i)
\* and element access at(i) with i >= length (any index on an empty list
\* included) throw, and so does remove_valuebased(v) when no element equals
\* v; in each case the elements, their order and length() are as before.
C29_MisuseChangesNothing ==
    [][ListStep
          => /\ (/\ ret'.call \in {"remove_indexbased", "at"}
                 /\ ret'.index >= Linked_length(linked_list))
                    => /\ ret'.threw = "out_of_range"
                       /\ Walk(linked_list') = Walk(linked_list)
                       /\ Linked_length(linked_list') = Linked_length(linked_list)
                       /\ UNCHANGED linked_list
             /\ (/\ ret'.call = "remove_valuebased"
                 /\ \A i \in 1 .. Len(Walk(linked_list)) :
                        Walk(linked_list)[i].key # ret'.value.key)
                    => /\ ret'.threw = "out_of_range"
                       /\ Walk(linked_list') = Walk(linked_list)
                       /\ Linked_length(linked_list') = Linked_length(linked_list)
                       /\ UNCHANGED linked_list]_vars

\* remove_indexbased(2) has thrown on a list of two elements.
C29_Witness ==
    /\ ret.call = "remove_indexbased"
    /\ ret.threw = "out_of_range"
    /\ ret.index = 2
    /\ calls = 3
    /\ Linked_length(linked_list) = 2
    /\ Len(Walk(linked_list)) = 2

\* The places of a running update_accounts_loans and of a running
\* update_accounts_operations.
InLoans == frame.pc \in {"while", "for", "credit", "clear_loans"}
InOperations == frame.pc \in {"apply", "clear_operations"}

\* The running commit ends with this step: it returns or throws.
CommitEnds == frame.pc # "idle" /\ frame'.pc = "idle"

\* What a step of a running commit does to the batch it is committing.
C23_Batch ==
    /\ InLoans
       => /\ _new_operations' = _new_operations
          /\ ~CommitEnds => _new_loans' = _new_loans
          /\ CommitEnds => /\ DoublyLinkedList_length(_new_loans) = frame.checked
                           /\ _new_loans' = << >>
          /\ (frame.pc = "credit" /\ frame'.i # frame.i) => frame.i < frame.checked
    /\ InOperations
       => /\ _new_loans' = _new_loans
          /\ ~CommitEnds => _new_operations' = _new_operations
          /\ CommitEnds => /\ DoublyLinkedList_length(_new_operations) = frame.checked
                           /\ _new_operations' = << >>
          /\ (frame.pc = "apply" /\ _bank_budget' # _bank_budget)
                 => frame.i < frame.checked

\* C23: with every public call under one mutex, every enqueued record is
\* evaluated by exactly one batch commit and no record is applied that the
\* safety check of that commit did not evaluate: while a commit runs its
\* queue is the batch the check evaluated, only records of that batch are
\* credited or applied, and when the commit ends the whole batch has left
\* the queue, so that no later commit evaluates a record again.
C23_OneCommitPerRecord == [][C23_Batch]_vars

\* A scan pass ends with this step.
PassEnds == frame.pc = "for" /\ frame'.pc = "while"

\* C24: the loan safety search terminates.  For a queue of n pending loans
\* it begins at most n scan passes, because every pass either dispenses at
\* least one further loan (after k passes that found one, k loans at least
\* are dispensed) or ends the search as unsafe; and a running
\* update_accounts_loans always comes to its end, where it returns true or
\* false.
C24_SearchTerminates ==
    /\ [](frame.pc \in {"while", "for"}
             => /\ frame.size = DoublyLinkedList_length(_new_loans)
                /\ frame.passes <= frame.size
                /\ frame.count = Cardinality(frame.dispensed)
                /\ frame.count <= frame.size)
    /\ [][PassEnds
             => /\ frame.found => /\ frame'.is_safe
                                  /\ frame.count >= frame.passes
                /\ ~frame.found => ~frame'.is_safe]_vars
    /\ [][(InLoans /\ CommitEnds)
             => /\ ret'.call = "update_accounts_loans"
                /\ ret'.threw = "none"
                /\ ret'.value = Bool(frame.is_safe)]_vars
    /\ (InLoans ~> frame.pc = "idle")

\* The search of a queue of two loans has returned safe after two passes:
\* the first dispensed one loan, the second the other.
C24_Witness ==
    /\ frame.pc = "credit"
    /\ frame.size = 2
    /\ frame.passes = 2
    /\ frame.count = 2
    /\ frame.is_safe

\* A step of the running commit (a request leaves the frame as it is).
CommitStep == frame.pc # "idle" /\ frame' # frame

\* C30: the Bank holds no lock of its own.  The crediting loop and the
\* applying loop run to the end of the queue as it is when they test it, and
\* the clear empties the queue as it is when it runs, whatever batch the
\* safety check has evaluated: a record a request appends after the check is
\* credited or applied without having been checked when the loop has not
\* ended yet, and is discarded without having been evaluated when it has.
C30_CommitActsOnTheQueueItFinds ==
    [][CommitStep
          => /\ frame.pc = "credit"
                => IF frame.i < DoublyLinkedList_length(_new_loans)
                   THEN /\ frame'.pc = "credit"
                        /\ frame'.i = frame.i + 1
                        /\ _bank_budget' = _bank_budget
                               + C4_Interest(_new_loans[frame.i + 1].loan_budget,
                                             _loan_interest)
                   ELSE /\ frame'.pc = "clear_loans"
                        /\ _bank_budget' = _bank_budget
             /\ frame.pc = "clear_loans"
                => /\ _new_loans' = << >>
                   /\ ret' = Returned("update_accounts_loans", Bool(frame.is_safe))
             /\ frame.pc = "apply"
                => IF frame.i < DoublyLinkedList_length(_new_operations)
                   THEN /\ _bank_budget' = (_bank_budget
                               - _new_operations[frame.i + 1].new_request_budget) % Modulus
                        /\ \/ frame'.pc = "apply" /\ frame'.i = frame.i + 1
                           \/ frame'.pc = "idle" /\ ret'.threw = "out_of_range"
                   ELSE /\ frame'.pc = "clear_operations"
                        /\ _bank_budget' = _bank_budget
             /\ frame.pc = "clear_operations"
                => /\ _new_operations' = << >>
                   /\ ret' = Returned("update_accounts_operations",
                                      Bool(frame.is_safe))]_vars

\* The safety check has evaluated a queue of one loan, and the crediting
\* loop has credited two: the second was requested after the check.
C30_Witness ==
    /\ frame.pc = "credit"
    /\ frame.checked = 1
    /\ frame.i = 2
    /\ DoublyLinkedList_length(_new_loans) = 2
    /\ _bank_budget = 4

\* ---------------------------------------------------------------- C31
\* C31: the loan admission result does not depend on the order in which the
\* loans were requested: on every update_accounts_loans step, every
\* permutation of the queue the call found gives the decision the call
\* returned and, when the batch is accepted, the bank budget the call left.

\* The queues that hold the records of loans in another order.
Reordered(loans) ==
    {[i \in 1 .. Len(loans) |-> loans[order[i]]] :
        order \in Permutations(1 .. Len(loans))}

C31_SameInEveryOrder ==
    LoansStep /\ _new_loans # << >>
        => \A loans \in Reordered(_new_loans) :
               LET done == LoansCommit(loans, _bank_budget, _loan_interest)
               IN  /\ ret'.value = Bool(done.is_safe)
                   /\ done.is_safe => _bank_budget' = done.budget

C31_OrderIndependent == [][C31_SameInEveryOrder]_vars

\* ---------------------------------------------------------------- C32
\* C32: the multi-pass search agrees with the sorted reference test: a
\* batch is accepted exactly when, with the loans taken in ascending order
\* of amount, each amount is <= the bank budget plus the truncated interests
\* of the loans before it; and a batch accepted at one budget is accepted
\* at every larger budget.

\* The reference test on the loans at the positions S, with b the budget
\* plus the interests of the loans already taken: the smallest is next.
RECURSIVE C32_Sorted(_, _, _, _)
C32_Sorted(loans, rate, S, b) ==
    IF S = {}
    THEN TRUE
    ELSE LET next == CHOOSE i \in S :
                         \A j \in S : loans[i].loan_budget <= loans[j].loan_budget
         IN  /\ loans[next].loan_budget <= b
             /\ C32_Sorted(loans, rate, S \ {next},
                           b + C4_Interest(loans[next].loan_budget, rate))

C32_AgreesWithSorted ==
    LoansStep /\ _new_loans # << >>
        => /\ ret'.value = Bool(C32_Sorted(_new_loans, _loan_interest,
                                           1 .. Len(_new_loans), _bank_budget))
           /\ ret'.value = Bool(TRUE)
                  => \A budget \in _bank_budget .. WideModulus - 1 :
                         _are_safe_loans(_new_loans, budget, _loan_interest)

C32_GreedyIsSortedReference == [][C32_AgreesWithSorted]_vars

\* ---------------------------------------------------------------- C33
\* C33: a request that fails (Deposit on a key that is no account,
\* OpenAccount on a key that is one) leaves the bank budget unchanged: after
\* the error the whole Bank is as it was before the call.

C33_FailedRequestStep ==
    /\ ret'.call = "request"
    /\ calls' = calls + 1
    /\ ret'.threw # "none"

C33_FailedRequestChangesNothing ==
    [][C33_FailedRequestStep
           => UNCHANGED <<_bank_budget, _loan_interest, _deposit_interest,
                          _accounts_budget, _new_loans, _new_operations>>]_vars

\* ---------------------------------------------------------------- C36
\* C36: update_accounts_operations rejects every batch whose total of
\* amounts, taken in the integers, exceeds the bank budget, also when the
\* accumulation in the unsigned type wraps around.

C36_RejectsWhatExceedsTheBudget ==
    [][(OperationsStep /\ OperationsTotal(_new_operations) > _bank_budget)
          => ret'.value = "false"]_vars

\* ---------------------------------------------------------------- C38
\* C38: after any sequence of append, remove_indexbased, remove_valuebased
\* and clear the list is well formed: length() is the number of nodes
\* reached from the first node, the first node has no predecessor, the
\* last-node pointer is the node the forward walk ends on, both pointers
\* are null exactly when the list is empty, the next and prev links of the
\* nodes agree, and an append on a list that clear or a removal has just
\* changed adds its value at the end.

\* The addresses of the nodes reached from item by next, in order.
RECURSIVE C38_Reached(_, _, _)
C38_Reached(nodes, item, fuel) ==
    IF item = nullptr \/ item \notin DOMAIN nodes \/ fuel = 0
    THEN << >>
    ELSE <<item>> \o C38_Reached(nodes, nodes[item].next, fuel - 1)

C38_WellFormed ==
    LET nodes   == linked_list.nodes
        reached == C38_Reached(nodes, linked_list._first_item, MaxNodes + 1)
    IN  /\ Linked_length(linked_list) = Len(reached)
        /\ linked_list._first_item \in DOMAIN nodes \cup {nullptr}
        /\ linked_list._last_item \in DOMAIN nodes \cup {nullptr}
        /\ (linked_list._first_item = nullptr) = (Len(reached) = 0)
        /\ (linked_list._last_item = nullptr) = (Len(reached) = 0)
        /\ Len(reached) > 0
               => /\ nodes[linked_list._first_item].prev = nullptr
                  /\ linked_list._last_item = reached[Len(reached)]
                  /\ nodes[linked_list._last_item].next = nullptr
        /\ \A i \in 1 .. Len(reached) - 1 :
               /\ nodes[reached[i]].next = reached[i + 1]
               /\ nodes[reached[i + 1]].prev = reached[i]

C38_AppendAfterRemoval ==
    (/\ ListStep
     /\ ret.call \in {"clear", "remove_indexbased", "remove_valuebased"}
     /\ ret.threw = "none"
     /\ ret'.call = "append")
        => Walk(linked_list') = Append(Walk(linked_list), ret'.value)

C38_ListWellFormed == []C38_WellFormed /\ [][C38_AppendAfterRemoval]_vars

\* An append has reused the address of a removed first node: the list of
\* two nodes ends on a lower address than it starts on.
C38_Witness ==
    /\ ret.call = "append"
    /\ linked_list._count = 2
    /\ linked_list._first_item > linked_list._last_item
    /\ C38_WellFormed

\* ---------------------------------------------------------------- C37
\* C37: for every bucket capacity the HashTable refines a map with the
\* sequence of its keys in insertion order: the result or error of every
\* insert, remove, clear, get, set and contains, and length() and keys()
\* after it, are those of the map, whatever the capacity, so that they are
\* the same for capacity 1, where all keys collide, and for a capacity at
\* which no two keys collide.

\* The map a table stands for: the <<key, value>> pairs of its buckets, and
\* its key list.
C37_Abstract(table) ==
    [pairs |-> UNION {{<<table.items[b][i].key, table.items[b][i].value>> :
                          i \in 1 .. Len(table.items[b])} :
                      b \in DOMAIN table.items},
     order |-> table.keys]

C37_Has(map, key) == \E pair \in map.pairs : pair[1] = key

C37_Without(map, key) == {pair \in map.pairs : pair[1] # key}

\* A call on the map: the map after it, and what it returns or throws.
C37_Call(map, call, key, arg) ==
    CASE call = "insert" ->
             IF C37_Has(map, key)
             THEN [map |-> map, value |-> "none", threw |-> "runtime_error"]
             ELSE [map   |-> [pairs |-> map.pairs \cup {<<key, arg>>},
                              order |-> Append(map.order, key)],
                   value |-> "void", threw |-> "none"]
      [] call = "remove" ->
             IF ~C37_Has(map, key)
             THEN [map |-> map, value |-> "none", threw |-> "out_of_range"]
             ELSE [map   |-> [pairs |-> C37_Without(map, key),
                              order |-> WithoutKey(map.order, key)],
                   value |-> "void", threw |-> "none"]
      [] call = "clear" ->
             [map |-> [pairs |-> {}, order |-> << >>],
              value |-> "void", threw |-> "none"]
      [] call = "get" ->
             IF ~C37_Has(map, key)
             THEN [map |-> map, value |-> "none", threw |-> "out_of_range"]
             ELSE [map   |-> map,
                   value |-> ToString((CHOOSE pair \in map.pairs : pair[1] = key)[2]),
                   threw |-> "none"]
      [] call = "set" ->
             IF ~C37_Has(map, key)
             THEN [map |-> map, value |-> "none", threw |-> "out_of_range"]
             ELSE [map   |-> [pairs |-> C37_Without(map, key) \cup {<<key, arg>>},
                              order |-> map.order],
                   value |-> "void", threw |-> "none"]
      [] call = "contains" ->
             [map |-> map, value |-> Bool(C37_Has(map, key)), threw |-> "none"]

C37_StepOfTheMap ==
    TableStep
        => LET done == C37_Call(C37_Abstract(_accounts_budget),
                                ret'.call, ret'.key, ret'.arg)
           IN  /\ ret'.value = done.value
               /\ ret'.threw = done.threw
               /\ C37_Abstract(_accounts_budget') = done.map
               /\ HashTable_length(_accounts_budget') = Cardinality(done.map.pairs)
               /\ HashTable_keys(_accounts_budget') = done.map.order
               /\ Len(done.map.order) = Cardinality(done.map.pairs)

C37_SameForEveryCapacity ==
    /\ [](calls = 0 => C37_Abstract(_accounts_budget) = [pairs |-> {}, order |-> << >>])
    /\ [][C37_StepOfTheMap]_vars

\* In the table of capacity 1 three keys are in the one bucket, two of
\* which do not collide at the default capacity, and the last has been read.
C37_Witness ==
    /\ _accounts_budget._bucket_capacity = 1
    /\ calls = 4
    /\ ret = TableRet("get", Pow2(16) + 1, 0, "2", "none")
    /\ Len(_accounts_budget.items[0]) = 3
    /\ HashTable_keys(_accounts_budget) = <<1, 2, Pow2(16) + 1>>

\* ---------------------------------------------------------------- C34
\* C34: in every state reached through epochs of the driver (requests only
\* for existing accounts with nothing pending, CloseAccount with the whole
\* balance, Withdraw with at most the balance, then the two commits and
\* update_interests once per epoch) the sum of all account balances is at
\* most the bank budget.

RECURSIVE C34_Balances(_, _)
C34_Balances(accounts, i) ==
    IF i >= HashTable_length(accounts)
    THEN 0
    ELSE HashTable_get(accounts, DoublyLinkedList_at(HashTable_keys(accounts), i))
             + C34_Balances(accounts, i + 1)

C34_BalancesWithinBudget == C34_Balances(_accounts_budget, 0) <= _bank_budget

\* ---------------------------------------------------------------- C35
\* C35: under the driver's discipline update_accounts_operations never
\* fails with KeyNotFound, no account balance underflows, and both queues
\* are empty at the end of every epoch.

\* No call of the driver has thrown; an epoch ends, and the next begins,
\* with both queues empty.
C35_NoFailure ==
    /\ ret.threw = "none"
    /\ frame.pc = "epoch_remove" => _new_loans = << >> /\ _new_operations = << >>

\* The commit finds every account its batch names, one operation for each,
\* and takes from no account more than it holds: an accepted batch leaves
\* the balance less the withdrawal, in the integers.
C35_NoUnderflow ==
    OperationsStep
        => /\ \A i \in 1 .. Len(_new_operations) :
                  /\ Exists(_new_operations[i].key)
                  /\ _new_operations[i].new_request_budget
                         <= Balance(_new_operations[i].key)
                  /\ \A j \in 1 .. Len(_new_operations) :
                         _new_operations[j].key = _new_operations[i].key => j = i
           /\ ret'.value = "true"
                  => \A key \in LiveKeys(_accounts_budget') :
                         HashTable_get(_accounts_budget', key)
                             = Balance(key) - WithdrawnFrom(_new_operations, key)

C35_DriverNeverFails == []C35_NoFailure /\ [][C35_NoUnderflow]_vars

\* A batch has been accepted and no account is left: it closed the last
\* account, and the driver is about to call update_interests.
C35_Witness ==
    /\ frame.pc = "epoch_interests"
    /\ ret = Returned("update_accounts_operations", "true")
    /\ HashTable_length(_accounts_budget) = 0
    /\ _new_operations = << >>

====
